---- MODULE Spec2Model ----
(***************************************************************************)
(* Document assembly engine of ai-doc-generator.                           *)
(*                                                                         *)
(* Spec      : ContentWriterAgent.execute, the recursive section scheduler *)
(*             (_process_section_async, _run_with_concurrency) writing one *)
(*             shared document under asyncio's cooperative scheduling.     *)
(* WideSpec  : the same scheduler, started also on a flat outline of six   *)
(*             sections under the default concurrency limit.               *)
(* FairSpec  : Spec with the event loop's fairness (a ready task runs).    *)
(* RetrySpec : the retry_with_backoff decorator of web_research_agent.py.  *)
(* FormatSpec: _apply_inline_formatting and _process_formatting, applied   *)
(*             to every short text over the markup tokens.                 *)
(* ConvertSpec: _convert_markdown_to_docx, one chunk per step, with its    *)
(*             image generation calls.                                     *)
(* PathSpec  : the output path execute derives from the document title.   *)
(* ApiSpec   : POST /generate-report and GET /report-status of main.py,    *)
(*             with the task registry of OrchestratorAgent.                *)
(* BatchSpec : ImageGenerationAgent._batch_generate_images.                *)
(* OrchSpec  : OrchestratorAgent.execute, several calls on one             *)
(*             orchestrator, each going through its four stages.           *)
(* ResearchSpec: WebResearchAgent.execute, the questions of one call       *)
(*             researched by concurrent tasks, each with its retries.      *)
(* ChainSpec : generate_report of tasks/report_tasks.py and the celery     *)
(*             chain research, structure, content, images it starts.       *)
(* FairChainSpec: ChainSpec with workers that run every task sent to them. *)
(* WsSpec    : ConnectionManager of websockets/manager.py: connect,        *)
(*             disconnect, send_update and broadcast, interleaved at the   *)
(*             awaits of the sends.                                        *)
(*                                                                         *)
(* One action is one run of a coroutine between two suspension points of   *)
(* the event loop: an awaited backend call, a wait for a semaphore or for  *)
(* the document lock, a wait for gather.                                   *)
(***************************************************************************)
EXTENDS Integers, Sequences, FiniteSets, TLC

VARIABLES
    parent,                 \* structure: parent[s] = 0 for a top-level section
    preset,                 \* section.content as handed to execute
    max_concurrent_tasks,   \* task.get("max_concurrent_tasks", 10)
    include_images,         \* task.get("include_images", True)
    llm,                    \* the answers of the content-generation backend
    exec_pc,                \* position of execute
    pc,                     \* position of each section's task
    content,                \* section.content
    pos,                    \* chunk at which a render is suspended in an image call
    cause,                  \* why a section's task raised
    sem,                    \* value of the semaphore of each sibling group
    doc_lock,               \* holder of doc_lock, 0 when free
    lock_waiters,           \* tasks waiting for doc_lock, first come first
    doc,                    \* the in-memory document: sequence of blocks
    file,                   \* the document as last saved to output_path
    faults,                 \* backend and save calls that raised so far
    cs_raised,              \* a save raised inside the lock
    gen_requests,           \* _generate_content invocations per section
    llm_calls,              \* _call_llm invocations per section
    content_writes,         \* assignments to section.content per section
    img_calls,              \* _generate_and_save_image invocations per section
    max_retries,            \* retry_with_backoff: decorator argument
    initial_backoff,        \* retry_with_backoff: decorator argument
    r_pc,                   \* retry_with_backoff: position of wrapper
    retries,                \* retry_with_backoff: local retries
    backoff,                \* retry_with_backoff: local backoff
    attempts,               \* retry_with_backoff: outcomes of the calls of func
    sleeps,                 \* retry_with_backoff: arguments of asyncio.sleep
    r_out,                  \* retry_with_backoff: what the caller gets
    f_text,                 \* _process_formatting: argument text
    f_pc,                   \* _process_formatting: position
    f_runs,                 \* _process_formatting: runs added to the paragraph
    markdown_text,          \* _convert_markdown_to_docx: argument markdown_text
    images_dir,             \* _convert_markdown_to_docx: images_dir is set
    cv_pc,                  \* _convert_markdown_to_docx: position
    paragraphs,             \* _convert_markdown_to_docx: chunks still to render
    paragraph_text,         \* _convert_markdown_to_docx: chunk waiting for its image
    docx,                   \* _convert_markdown_to_docx: blocks added to the document
    image_requests,         \* descriptions passed to _generate_and_save_image
    backend_calls,          \* descriptions passed to ImageGenerationAgent.execute
    image_results,          \* what each _generate_and_save_image call came to
    title,                  \* execute: structure.title
    path_pc,                \* execute: position in the computation of output_path
    output_path,            \* execute: output_path
    active_tasks,           \* OrchestratorAgent.active_tasks, in insertion order
    background,             \* background tasks added and not yet started
    responses,              \* the HTTP responses sent so far
    generations,            \* task id of the generation each POST started, 0 if none yet
    batch_descriptions,     \* _batch_generate_images: the (description, caption) pairs
    batch_pc,               \* _batch_generate_images: position
    batch_results,          \* what the generate_image call of each pair returned
    batch_finished,         \* the pairs in the order their calls ended
    batch_out,              \* what _batch_generate_images returned
    orch_tasks,             \* OrchestratorAgent.active_tasks, one entry per execute call
    orch_pc,                \* OrchestratorAgent.execute: position of each call
    orch_returned,          \* OrchestratorAgent.execute: stages that returned, per call
    orch_out,               \* OrchestratorAgent.execute: what the caller of each call got
    rs_questions,           \* WebResearchAgent.execute: task["questions"]
    rs_pc,                  \* WebResearchAgent.execute: position
    rs_tasks,               \* what the research task of each question came to
    rs_retries,             \* retry_with_backoff: retries of each question's call
    rs_finished,            \* the questions in the order their tasks ended
    rs_out,                 \* WebResearchAgent.execute: the results returned
    report_status,          \* report_tasks: Report.status of each report
    report_images,          \* report_tasks: Report.include_images of each report
    task_status,            \* report_tasks: Task.status of the four subtasks of each report
    chain_pc,               \* report_tasks: the celery task of each report that runs next
    chain_at,               \* report_tasks: how far that task has come
    chain_result,           \* report_tasks: "success" of the result handed to the next task
    active_connections,     \* ConnectionManager: the dict, as its entries in insertion order
    ws_state,               \* each WebSocket: new, open (connected), closed
    ws_task,                \* each WebSocket: the task_id it connected with, 0 before
    ws_failed,              \* the WebSockets on which a send_json of send_update raised
    ws_calls,               \* calls of send_update and broadcast made so far
    su_pc,                  \* send_update: position
    su_caller,              \* send_update: called by broadcast or directly
    su_task,                \* send_update: task_id
    su_socket,              \* send_update: the websocket whose send_json is awaited
    su_index,               \* send_update: elements the list iterator has yielded
    su_detached,            \* send_update: the list iterated was deleted from the dict
    su_disconnected,        \* send_update: disconnected_websockets
    bc_pc,                  \* broadcast: position
    bc_pos,                 \* broadcast: entry the dict iterator has reached
    bc_size,                \* broadcast: size of the dict when the iteration began
    bc_left                 \* broadcast: keys the dict iterator still expects to yield

sched_vars == <<parent, preset, max_concurrent_tasks, include_images, llm, exec_pc, pc,
                content, pos, cause, sem, doc_lock, lock_waiters, doc, file, faults,
                cs_raised, gen_requests, llm_calls, content_writes, img_calls>>
retry_vars == <<max_retries, initial_backoff, r_pc, retries, backoff, attempts,
                sleeps, r_out>>
format_vars == <<f_text, f_pc, f_runs>>
convert_vars == <<markdown_text, images_dir, cv_pc, paragraphs, paragraph_text, docx,
                  image_requests, backend_calls, image_results>>
text_vars == <<format_vars, convert_vars>>
path_vars == <<title, path_pc, output_path>>
api_vars == <<active_tasks, background, responses, generations>>
batch_vars == <<batch_descriptions, batch_pc, batch_results, batch_finished, batch_out>>
orch_vars == <<orch_tasks, orch_pc, orch_returned, orch_out>>
research_vars == <<rs_questions, rs_pc, rs_tasks, rs_retries, rs_finished, rs_out>>
chain_vars == <<report_status, report_images, task_status, chain_pc, chain_at, chain_result>>
ws_vars == <<active_connections, ws_state, ws_task, ws_failed, ws_calls, su_pc, su_caller,
             su_task, su_socket, su_index, su_detached, su_disconnected, bc_pc, bc_pos, bc_size,
             bc_left>>
agent_vars == <<orch_vars, research_vars, chain_vars, ws_vars>>
svc_vars == <<path_vars, api_vars, batch_vars, agent_vars>>
vars == <<sched_vars, retry_vars, text_vars, svc_vars>>

----------------------------------------------------------------------------
(* Bounds of the model *)

\* backend and save calls that may raise in one run
MaxFaults == 2
\* largest max_retries the decorator is instantiated with
MaxRetriesArg == 3
\* tokens of a text handed to the inline formatter
MaxTokens == 5
\* leading # characters of a chunk
MaxHashes == 7
\* lines of a list chunk or of a table chunk
MaxLines == 3
\* characters of a document title
MaxTitleLen == 3
\* POST requests served by the HTTP service
MaxRequests == 2
\* (description, caption) pairs of a batch of images
MaxBatch == 3
\* calls of OrchestratorAgent.execute on one orchestrator
MaxExecutes == 3
\* questions of one call of WebResearchAgent.execute
MaxQuestions == 3
\* reports handed to the celery workers
MaxReports == 2
\* WebSocket clients of the connection manager
MaxSockets == 3
\* calls of send_update and broadcast on the connection manager
MaxSendCalls == 2

(* Program constants *)

\* task.get("max_concurrent_tasks", 10)
DefaultMaxConcurrentTasks == 10
\* self._run_with_concurrency(subsection_tasks, 3)
NestedConcurrency == 3
\* self.api_semaphore = asyncio.Semaphore(5)
ApiSemaphoreLimit == 5
\* if not description or len(description) < 10
MinDescriptionLen == 10
\* def retry_with_backoff(max_retries=3, initial_backoff=1)
DefaultMaxRetries == 3
\* @retry_with_backoff(max_retries=3, initial_backoff=2)
ResearchMaxRetries == 3
ResearchInitialBackoff == 2

----------------------------------------------------------------------------
(* Section trees and contents *)

\* A chunk of section.content, by what _convert_markdown_to_docx does with it:
\*   "para" a chunk without image reference (one block),
\*   "mark" a chunk without image reference that holds the two characters of
\*          an image marker, as in "see ![ here" (one block),
\*   "img"  a chunk that is one image reference ![caption](description) with
\*          a description of at least 10 characters,
\*   "ragged" a table chunk whose last row has more cells than its first row,
\*          as in "|a|b|" over "|c|d|e|": the table is added with the columns
\*          of the first row, and table.cell(i, j) of the last row's extra
\*          cell, at offset j + i * columns = rows * columns, raises
\*          IndexError. (A longer row above the last one only raises when
\*          that offset leaves the table; such a chunk is "ragged" only if
\*          it does.)
Chunks == {"para", "mark", "img", "ragged"}

EmptyContent == <<>>

\* Outlines: parent vectors, sections numbered in outline order.
Chain3 == <<0, 1, 2, 0>>
Fan4 == <<0, 1, 1, 1, 1>>
Flat3 == <<0, 0, 0>>
Flat6 == <<0, 0, 0, 0, 0, 0>>

Nodes == 1..Len(parent)
Groups == 0..Len(parent)
Children(p) == {c \in Nodes : parent[c] = p}

LevelFlat(s) == 1

RECURSIVE Level(_)
\* level=1 for top-level sections, level + 1 for subsections
Level(s) == IF parent[s] = 0 THEN 1 ELSE 1 + Level(parent[s])

RECURSIVE IsAncestor(_, _)
\* a is a proper ancestor of s in the outline
IsAncestor(a, s) ==
    IF s = 0 THEN FALSE
    ELSE parent[s] = a \/ IsAncestor(a, parent[s])

\* "![" in response
ImageNeverSeen(c) == FALSE
HasImage(c) == \E i \in 1..Len(c) : c[i] \in {"mark", "img"}

\* re.search(r"!\[(.+?)\]\((.+?)\)", ...) finds an image reference in the text
HasImageRef(c) == \E i \in 1..Len(c) : c[i] = "img"

\* level is the level argument of doc.add_heading: 0 for the title, the level
\* parameter of the section task for a section heading; 0 on other blocks
Block(s, k) == [sec |-> s, kind |-> k, level |-> IF k = "heading" THEN Level(s) ELSE 0]
TitleBlock == Block(0, "title")

----------------------------------------------------------------------------
(* Scenarios: the arguments of one call of execute *)

\* llm is the content-generation backend of the run: its answer (after
\* response.strip()) to the first prompt and to the prompt with the image warning.
Scenario(tree, init, cap, images, answers) ==
    [parent |-> tree, preset |-> init, cap |-> cap, images |-> images, llm |-> answers]

Unpopulated(tree) == [s \in 1..Len(tree) |-> EmptyContent]

Scenarios ==
    { Scenario(Chain3, Unpopulated(Chain3), 2, TRUE, <<<<"para">>, <<"para", "img">>>>),
      Scenario(Chain3, Unpopulated(Chain3), 2, FALSE, <<<<"para", "img">>, <<"para">>>>),
      Scenario(Chain3, [Unpopulated(Chain3) EXCEPT ![1] = <<"para", "img">>],
               DefaultMaxConcurrentTasks, TRUE, <<<<"img", "para">>, <<"para">>>>),
      Scenario(Chain3, [Unpopulated(Chain3) EXCEPT ![2] = <<"img", "para">>],
               DefaultMaxConcurrentTasks, TRUE, <<<<"img">>, <<"img">>>>),
      Scenario(Fan4, [Unpopulated(Fan4) EXCEPT ![1] = <<"para">>],
               DefaultMaxConcurrentTasks, FALSE, <<EmptyContent, EmptyContent>>),
      Scenario(Fan4, Unpopulated(Fan4), 1, TRUE, <<<<"img">>, <<"img">>>>) }
    \cup
    { Scenario(Flat3, Unpopulated(Flat3), cap, TRUE, <<EmptyContent, <<"para">>>>)
        : cap \in {1, 2} }
    \cup
    { Scenario(Flat3, Unpopulated(Flat3), 1, TRUE, <<<<"mark">>, <<"para", "img">>>>),
      Scenario(Flat3, [Unpopulated(Flat3) EXCEPT ![2] = <<"para", "ragged", "para">>],
               2, FALSE, <<<<"para">>, <<"para">>>>) }

WideScenarios ==
    Scenarios \cup
    { Scenario(Flat6, Unpopulated(Flat6), DefaultMaxConcurrentTasks, FALSE,
               <<<<"para">>, <<"para">>>>) }

----------------------------------------------------------------------------
(* retry_with_backoff stays idle while the scheduler runs, and conversely *)

RetryIdle ==
    /\ max_retries = 0
    /\ initial_backoff = 0
    /\ r_pc = "idle"
    /\ retries = 0
    /\ backoff = 0
    /\ attempts = <<>>
    /\ sleeps = <<>>
    /\ r_out = "none"

SchedInitOn(S) ==
    \E sc \in S :
        /\ parent = sc.parent
        /\ preset = sc.preset
        /\ max_concurrent_tasks = sc.cap
        /\ include_images = sc.images
        /\ llm = sc.llm
        /\ exec_pc = "start"
        /\ pc = [s \in 1..Len(sc.parent) |-> "new"]
        /\ content = sc.preset
        /\ pos = [s \in 1..Len(sc.parent) |-> 0]
        /\ cause = [s \in 1..Len(sc.parent) |-> "none"]
        /\ sem = [g \in 0..Len(sc.parent) |-> 0]
        /\ doc_lock = 0
        /\ lock_waiters = <<>>
        /\ doc = <<>>
        /\ file = <<>>
        /\ faults = 0
        /\ cs_raised = FALSE
        /\ gen_requests = [s \in 1..Len(sc.parent) |-> 0]
        /\ llm_calls = [s \in 1..Len(sc.parent) |-> 0]
        /\ content_writes = [s \in 1..Len(sc.parent) |-> 0]
        /\ img_calls = [s \in 1..Len(sc.parent) |-> 0]

\* no text is being formatted or converted
TextIdle ==
    /\ f_text = <<>>
    /\ f_pc = "idle"
    /\ f_runs = <<>>
    /\ markdown_text = <<>>
    /\ images_dir = FALSE
    /\ cv_pc = "idle"
    /\ paragraphs = <<>>
    /\ paragraph_text = <<>>
    /\ docx = <<>>
    /\ image_requests = <<>>
    /\ backend_calls = <<>>
    /\ image_results = <<>>

\* no output path is being computed
PathIdle ==
    /\ title = <<>>
    /\ path_pc = "idle"
    /\ output_path = <<>>

\* the HTTP service has served no request
ApiIdle ==
    /\ active_tasks = <<>>
    /\ background = {}
    /\ responses = <<>>
    /\ generations = <<>>

\* no batch of images is being generated
BatchIdle ==
    /\ batch_descriptions = <<>>
    /\ batch_pc = "idle"
    /\ batch_results = <<>>
    /\ batch_finished = <<>>
    /\ batch_out = <<>>

\* OrchestratorAgent.execute was not called
OrchIdle ==
    /\ orch_tasks = <<>>
    /\ orch_pc = <<>>
    /\ orch_returned = <<>>
    /\ orch_out = <<>>

\* WebResearchAgent.execute was not called
ResearchIdle ==
    /\ rs_questions = <<>>
    /\ rs_pc = "idle"
    /\ rs_tasks = <<>>
    /\ rs_retries = <<>>
    /\ rs_finished = <<>>
    /\ rs_out = <<>>

\* no report is handed to the celery workers
ChainIdle ==
    /\ report_status = <<>>
    /\ report_images = <<>>
    /\ task_status = <<>>
    /\ chain_pc = <<>>
    /\ chain_at = <<>>
    /\ chain_result = <<>>

\* no connection manager is in use
WsIdle ==
    /\ active_connections = <<>>
    /\ ws_state = <<>>
    /\ ws_task = <<>>
    /\ ws_failed = {}
    /\ ws_calls = 0
    /\ su_pc = "idle"
    /\ su_caller = "none"
    /\ su_task = 0
    /\ su_socket = 0
    /\ su_index = 0
    /\ su_detached = FALSE
    /\ su_disconnected = <<>>
    /\ bc_pc = "idle"
    /\ bc_pos = 0
    /\ bc_size = 0
    /\ bc_left = 0

AgentsIdle == OrchIdle /\ ResearchIdle /\ ChainIdle /\ WsIdle

Init == SchedInitOn(Scenarios) /\ RetryIdle /\ TextIdle /\ PathIdle /\ ApiIdle /\ BatchIdle /\ AgentsIdle

WideInit ==
    SchedInitOn(WideScenarios) /\ RetryIdle /\ TextIdle /\ PathIdle /\ ApiIdle /\ BatchIdle /\ AgentsIdle

----------------------------------------------------------------------------
(* Guards *)

\* async with semaphore: a permit is left
SemaphoreIgnored(g) == TRUE
SemaphoreFree(g) == sem[g] > 0

\* async with doc_lock: nobody holds the lock
LockIgnored == TRUE
LockFree == doc_lock = 0

\* if not section.content
AlwaysGenerate(s) == TRUE
NeedsGeneration(s) == content[s] = EmptyContent

\* doc.save(output_path): the file holds the document d
DocSaveStale(d) == file
DocSave(d) == d

\* a call that may still raise in this run
MayFail == faults < MaxFaults
SaveOutcomes == IF MayFail THEN BOOLEAN ELSE {TRUE}

----------------------------------------------------------------------------
(* Rendering inside the lock *)

\* images_dir handed to the section tasks is set: "images_dir if include_images
\* else None", tested by "if image_match and images_dir"
ImagesDirAlwaysSet == TRUE
ImagesDir == include_images

RECURSIVE RenderFrom(_, _, _)
\* _convert_markdown_to_docx from chunk k on: the blocks added up to the next
\* image call (the await of _generate_and_save_image, where the task may be
\* suspended), the exception of a chunk it cannot render, or the end of the
\* text. Without images_dir an image reference falls through to the regular
\* paragraph. Nothing in the renderer catches the IndexError of a table with a
\* cell past its last, which is raised after the table was added.
RenderFrom(s, c, k) ==
    IF k > Len(c) THEN [blocks |-> <<>>, stop |-> "end", at |-> k]
    ELSE IF c[k] = "img" /\ ImagesDir
         THEN [blocks |-> <<>>, stop |-> "await", at |-> k]
    ELSE IF c[k] = "ragged"
         THEN [blocks |-> <<Block(s, "table")>>, stop |-> "raise", at |-> k]
    ELSE LET r == RenderFrom(s, c, k + 1)
         IN  [r EXCEPT !.blocks = <<Block(s, "para")>> \o @]

\* The task of s ends: async with semaphore gives the group's permit back.
\* sm is the semaphore state the step starts from.
TaskExitKeepsPermit(s, to, why, sm) ==
    /\ pc' = [pc EXCEPT ![s] = to]
    /\ cause' = [cause EXCEPT ![s] = why]
    /\ sem' = sm

TaskExit(s, to, why, sm) ==
    /\ pc' = [pc EXCEPT ![s] = to]
    /\ cause' = [cause EXCEPT ![s] = why]
    /\ sem' = [sm EXCEPT ![parent[s]] = @ + 1]

\* if section.subsections: one task per subsection, gathered under a semaphore of 3
ProcessSubsections(s, sm) ==
    IF Children(s) # {}
    THEN /\ pc' = [x \in Nodes |-> IF x = s THEN "children"
                                   ELSE IF x \in Children(s) THEN "queued"
                                   ELSE pc[x]]
         /\ sem' = [sm EXCEPT ![s] = NestedConcurrency]
         /\ cause' = cause
    ELSE TaskExit(s, "done", "none", sm)

\* The body of "async with doc_lock" from chunk k of content c on, d being the
\* document so far: render, then doc.save(output_path), then leave the lock and
\* go on to the subsections. When the renderer raises, the lock is left with
\* the blocks added so far in the document, doc.save is not reached and the
\* task ends with the exception.
RenderAndSave(s, c, d, k, sm, saveOk) ==
    LET r == RenderFrom(s, c, k)
        d2 == d \o r.blocks
    IN  /\ doc' = d2
        /\ CASE r.stop = "await" ->
                  /\ doc_lock' = s
                  /\ pc' = [pc EXCEPT ![s] = "img"]
                  /\ pos' = [pos EXCEPT ![s] = r.at]
                  /\ img_calls' = [img_calls EXCEPT ![s] = @ + 1]
                  /\ sem' = sm
                  /\ UNCHANGED <<file, cause, faults, cs_raised>>
             [] r.stop = "raise" ->
                  /\ doc_lock' = 0
                  /\ TaskExit(s, "failed", "render", sm)
                  /\ pos' = [pos EXCEPT ![s] = 0]
                  /\ UNCHANGED <<file, faults, cs_raised, img_calls>>
             [] r.stop = "end" /\ saveOk ->
                  /\ file' = DocSave(d2)
                  /\ doc_lock' = 0
                  /\ ProcessSubsections(s, sm)
                  /\ pos' = [pos EXCEPT ![s] = 0]
                  /\ UNCHANGED <<faults, cs_raised, img_calls>>
             [] r.stop = "end" /\ ~saveOk ->
                  /\ doc_lock' = 0
                  /\ TaskExit(s, "failed", "save", sm)
                  /\ faults' = faults + 1
                  /\ cs_raised' = TRUE
                  /\ pos' = [pos EXCEPT ![s] = 0]
                  /\ UNCHANGED <<file, img_calls>>

\* heading = doc.add_heading(section.title, level=level): python-docx appends the
\* heading at the end of the document body
AddHeadingInOutlineOrder(d, s) ==
    LET later == {i \in DOMAIN d : d[i].sec > s}
    IN  IF later = {} THEN Append(d, Block(s, "heading"))
        ELSE LET m == CHOOSE i \in later : \A j \in later : i <= j
             IN  SubSeq(d, 1, m - 1) \o <<Block(s, "heading")>> \o SubSeq(d, m, Len(d))
AddHeading(d, s) == Append(d, Block(s, "heading"))

\* "async with doc_lock:" reached with content c. asyncio.Lock.acquire does not
\* suspend when the lock is free and nobody waits; otherwise the task queues.
GoForLock(s, c, sm) ==
    IF LockFree /\ lock_waiters = <<>>
    THEN /\ \E saveOk \in SaveOutcomes :
              RenderAndSave(s, c, AddHeading(doc, s), 1, sm, saveOk)
         /\ lock_waiters' = lock_waiters
    ELSE /\ pc' = [pc EXCEPT ![s] = "wantlock"]
         /\ lock_waiters' = Append(lock_waiters, s)
         /\ sem' = sm
         /\ UNCHANGED <<doc, file, doc_lock, pos, cause, faults, cs_raised, img_calls>>

----------------------------------------------------------------------------
(* ContentWriterAgent.execute *)

\* execute up to "await self._run_with_concurrency(section_tasks, max_concurrent_tasks)"
ExecuteStart ==
    /\ exec_pc = "start"
    /\ \E saveOk \in SaveOutcomes :
         /\ doc' = <<TitleBlock>>
         /\ IF saveOk
            THEN /\ file' = DocSave(<<TitleBlock>>)
                 /\ exec_pc' = "gather"
                 /\ pc' = [s \in Nodes |-> IF parent[s] = 0 THEN "queued" ELSE "new"]
                 /\ sem' = [sem EXCEPT ![0] = max_concurrent_tasks]
                 /\ faults' = faults
            ELSE /\ exec_pc' = "raised"
                 /\ faults' = faults + 1
                 /\ UNCHANGED <<file, pc, sem>>
    /\ UNCHANGED <<parent, preset, max_concurrent_tasks, include_images, llm, content, pos,
                   cause, doc_lock, lock_waiters, cs_raised, gen_requests, llm_calls,
                   content_writes, img_calls, retry_vars,
                   text_vars, svc_vars>>

\* gather returned: "async with doc_lock: doc.save(output_path)", return output_path
ExecuteFinish ==
    /\ exec_pc = "gather"
    /\ \A s \in Children(0) : pc[s] = "done"
    /\ LockFree
    /\ \E saveOk \in SaveOutcomes :
         IF saveOk
         THEN /\ file' = DocSave(doc)
              /\ exec_pc' = "returned"
              /\ UNCHANGED <<faults, cs_raised>>
         ELSE /\ exec_pc' = "raised"
              /\ faults' = faults + 1
              /\ cs_raised' = TRUE
              /\ file' = file
    /\ UNCHANGED <<parent, preset, max_concurrent_tasks, include_images, llm, pc, content,
                   pos, cause, sem, doc_lock, lock_waiters, doc, gen_requests,
                   llm_calls, content_writes, img_calls, retry_vars,
                   text_vars, svc_vars>>

\* gather re-raises the first exception of a top-level task: execute raises
ExecuteRaise ==
    /\ exec_pc = "gather"
    /\ \E s \in Children(0) : pc[s] = "failed"
    /\ exec_pc' = "raised"
    /\ UNCHANGED <<parent, preset, max_concurrent_tasks, include_images, llm, pc, content,
                   pos, cause, sem, doc_lock, lock_waiters, doc, file, faults,
                   cs_raised, gen_requests, llm_calls, content_writes, img_calls,
                   retry_vars, text_vars, svc_vars>>

----------------------------------------------------------------------------
(* ContentWriterAgent._run_with_concurrency and _process_section_async *)

\* gather starts the tasks of a group in outline order and a semaphore serves its
\* waiters first come first: s is next when no earlier sibling is still queued.
NextInGroup(s) ==
    \A c \in Children(parent[s]) : c < s => pc[c] # "queued"

\* _task_with_semaphore takes a permit of its group and _process_section_async runs
\* to its first suspension: the backend call of _generate_content, or the lock.
\* The subsection tasks are created only after the lock block (ProcessSubsections).
ProcessSectionBeginSubsectionsFirst(s) ==
    /\ pc[s] = "queued"
    /\ NextInGroup(s)
    /\ SemaphoreFree(parent[s])
    /\ IF NeedsGeneration(s)
       THEN /\ pc' = [x \in Nodes |-> IF x = s THEN "gen1"
                                      ELSE IF x \in Children(s) THEN "queued"
                                      ELSE pc[x]]
            /\ sem' = [sem EXCEPT ![parent[s]] = @ - 1, ![s] = NestedConcurrency]
            /\ gen_requests' = [gen_requests EXCEPT ![s] = @ + 1]
            /\ llm_calls' = [llm_calls EXCEPT ![s] = @ + 1]
            /\ UNCHANGED <<doc, file, doc_lock, lock_waiters, pos, cause, faults,
                           cs_raised, img_calls>>
       ELSE /\ GoForLock(s, content[s], [sem EXCEPT ![parent[s]] = @ - 1])
            /\ UNCHANGED <<gen_requests, llm_calls>>
    /\ UNCHANGED <<parent, preset, max_concurrent_tasks, include_images, llm, exec_pc,
                   content, content_writes, retry_vars,
                   text_vars, svc_vars>>

ProcessSectionBegin(s) ==
    /\ pc[s] = "queued"
    /\ NextInGroup(s)
    /\ SemaphoreFree(parent[s])
    /\ IF NeedsGeneration(s)
       THEN /\ pc' = [pc EXCEPT ![s] = "gen1"]
            /\ sem' = [sem EXCEPT ![parent[s]] = @ - 1]
            /\ gen_requests' = [gen_requests EXCEPT ![s] = @ + 1]
            /\ llm_calls' = [llm_calls EXCEPT ![s] = @ + 1]
            /\ UNCHANGED <<doc, file, doc_lock, lock_waiters, pos, cause, faults,
                           cs_raised, img_calls>>
       ELSE /\ GoForLock(s, content[s], [sem EXCEPT ![parent[s]] = @ - 1])
            /\ UNCHANGED <<gen_requests, llm_calls>>
    /\ UNCHANGED <<parent, preset, max_concurrent_tasks, include_images, llm, exec_pc,
                   content, content_writes, retry_vars,
                   text_vars, svc_vars>>

\* _call_llm returns r. _generate_content asks once more when images are wanted and
\* the first answer has none; otherwise section.content = content and the task goes
\* for the lock.
LlmReturn(s, r) ==
    /\ pc[s] \in {"gen1", "gen2"}
    /\ r = IF pc[s] = "gen1" THEN llm[1] ELSE llm[2]
    /\ IF pc[s] = "gen1" /\ include_images /\ ~HasImage(r)
       THEN /\ pc' = [pc EXCEPT ![s] = "gen2"]
            /\ llm_calls' = [llm_calls EXCEPT ![s] = @ + 1]
            /\ UNCHANGED <<content, content_writes, doc, file, doc_lock, lock_waiters,
                           pos, cause, sem, faults, cs_raised, img_calls>>
       ELSE /\ content' = [content EXCEPT ![s] = r]
            /\ content_writes' = [content_writes EXCEPT ![s] = @ + 1]
            /\ GoForLock(s, r, sem)
            /\ UNCHANGED llm_calls
    /\ UNCHANGED <<parent, preset, max_concurrent_tasks, include_images, llm, exec_pc,
                   gen_requests, retry_vars,
                   text_vars, svc_vars>>

\* _call_llm raises: "except Exception ... raise", and nothing between the backend
\* and the task catches it, so the task of s ends with the exception.
LlmRaise(s) ==
    /\ pc[s] \in {"gen1", "gen2"}
    /\ MayFail
    /\ faults' = faults + 1
    /\ TaskExit(s, "failed", "gen", sem)
    /\ UNCHANGED <<parent, preset, max_concurrent_tasks, include_images, llm, exec_pc,
                   content, pos, doc_lock, lock_waiters, doc, file, cs_raised,
                   gen_requests, llm_calls, content_writes, img_calls, retry_vars,
                   text_vars, svc_vars>>

\* The lock was released and s is the first waiter: it takes the lock;
\* doc.add_heading(section.title, level), then the content.
LockWake(s) ==
    /\ pc[s] = "wantlock"
    /\ LockFree
    /\ lock_waiters # <<>>
    /\ s = Head(lock_waiters)
    /\ lock_waiters' = Tail(lock_waiters)
    /\ \E saveOk \in SaveOutcomes :
         RenderAndSave(s, content[s], AddHeading(doc, s), 1, sem, saveOk)
    /\ UNCHANGED <<parent, preset, max_concurrent_tasks, include_images, llm, exec_pc,
                   content, gen_requests, llm_calls, content_writes, retry_vars,
                   text_vars, svc_vars>>

\* _generate_and_save_image returns a path (_add_image is called: the block
\* "image" stands for the call and the blocks it adds, which ConvertSpec tells
\* apart) or None (the placeholder paragraph is added); the render goes on with
\* the next chunk.
ImageReturn(s, path) ==
    /\ pc[s] = "img"
    /\ \E saveOk \in SaveOutcomes :
         RenderAndSave(s, content[s],
                       Append(doc, Block(s, IF path THEN "image" ELSE "imgfail")),
                       pos[s] + 1, sem, saveOk)
    /\ UNCHANGED <<parent, preset, max_concurrent_tasks, include_images, llm, exec_pc,
                   content, lock_waiters, gen_requests, llm_calls, content_writes,
                   retry_vars, text_vars, svc_vars>>

\* gather of the subsections returned: return section.title
SubsectionsDone(s) ==
    /\ pc[s] = "children"
    /\ \A c \in Children(s) : pc[c] = "done"
    /\ TaskExit(s, "done", "none", sem)
    /\ UNCHANGED <<parent, preset, max_concurrent_tasks, include_images, llm, exec_pc,
                   content, pos, doc_lock, lock_waiters, doc, file, faults, cs_raised,
                   gen_requests, llm_calls, content_writes, img_calls, retry_vars,
                   text_vars, svc_vars>>

\* gather re-raises the first exception of a subsection; the other subsections
\* are not cancelled and run on.
SubsectionRaised(s) ==
    /\ pc[s] = "children"
    /\ \E c \in Children(s) : pc[c] = "failed"
    /\ TaskExit(s, "failed", "child", sem)
    /\ UNCHANGED <<parent, preset, max_concurrent_tasks, include_images, llm, exec_pc,
                   content, pos, doc_lock, lock_waiters, doc, file, faults, cs_raised,
                   gen_requests, llm_calls, content_writes, img_calls, retry_vars,
                   text_vars, svc_vars>>

SchedNext ==
    \/ ExecuteStart
    \/ ExecuteFinish
    \/ ExecuteRaise
    \/ \E s \in Nodes : ProcessSectionBegin(s)
    \/ \E s \in Nodes : \E r \in {llm[1], llm[2]} : LlmReturn(s, r)
    \/ \E s \in Nodes : LlmRaise(s)
    \/ \E s \in Nodes : LockWake(s)
    \/ \E s \in Nodes : \E path \in BOOLEAN : ImageReturn(s, path)
    \/ \E s \in Nodes : SubsectionsDone(s)
    \/ \E s \in Nodes : SubsectionRaised(s)

----------------------------------------------------------------------------
(* retry_with_backoff(max_retries, initial_backoff) around one awaited func *)

Values == {"v1", "v2"}
Errors == {"e1", "e2"}
Backoffs == {1, ResearchInitialBackoff}

ReturnedValue(v) == [kind |-> "value", val |-> v]
RaisedError(e) == [kind |-> "error", val |-> e]
ReturnedNone == [kind |-> "none", val |-> "None"]

SchedIdle ==
    /\ parent = <<>>
    /\ preset = <<>>
    /\ max_concurrent_tasks = 0
    /\ include_images = FALSE
    /\ llm = <<>>
    /\ exec_pc = "idle"
    /\ pc = <<>>
    /\ content = <<>>
    /\ pos = <<>>
    /\ cause = <<>>
    /\ sem = <<>>
    /\ doc_lock = 0
    /\ lock_waiters = <<>>
    /\ doc = <<>>
    /\ file = <<>>
    /\ faults = 0
    /\ cs_raised = FALSE
    /\ gen_requests = <<>>
    /\ llm_calls = <<>>
    /\ content_writes = <<>>
    /\ img_calls = <<>>

\* wrapper is called: retries = 0, backoff = initial_backoff
RetryInit ==
    /\ max_retries \in 0..MaxRetriesArg
    /\ initial_backoff \in Backoffs
    /\ r_pc = "loop"
    /\ retries = 0
    /\ backoff = initial_backoff
    /\ attempts = <<>>
    /\ sleeps = <<>>
    /\ r_out = ReturnedNone

\* while retries < max_retries
LoopGoesOn(n) == n < max_retries

\* if retries == max_retries: raise
ExhaustedLate(n) == n > max_retries
RetriesExhausted(n) == n = max_retries

\* the loop is entered: await func(*args, **kwargs)
RetryAttempt ==
    /\ r_pc = "loop"
    /\ LoopGoesOn(retries)
    /\ r_pc' = "calling"
    /\ UNCHANGED <<max_retries, initial_backoff, retries, backoff, attempts, sleeps,
                   r_out, sched_vars,
                   text_vars, svc_vars>>

\* the loop condition fails: wrapper ends without a return statement
RetryFallThrough ==
    /\ r_pc = "loop"
    /\ ~LoopGoesOn(retries)
    /\ r_pc' = "returned"
    /\ r_out' = ReturnedNone
    /\ UNCHANGED <<max_retries, initial_backoff, retries, backoff, attempts, sleeps,
                   sched_vars, text_vars, svc_vars>>

\* return await func(*args, **kwargs)
FuncReturns(v) ==
    /\ r_pc = "calling"
    /\ attempts' = Append(attempts, ReturnedValue(v))
    /\ r_pc' = "returned"
    /\ r_out' = ReturnedValue(v)
    /\ UNCHANGED <<max_retries, initial_backoff, retries, backoff, sleeps, sched_vars,
                   text_vars, svc_vars>>

\* except Exception: retries += 1; raise when exhausted, else asyncio.sleep(backoff)
FuncRaises(e) ==
    /\ r_pc = "calling"
    /\ attempts' = Append(attempts, RaisedError(e))
    /\ retries' = retries + 1
    /\ IF RetriesExhausted(retries + 1)
       THEN /\ r_pc' = "raised"
            /\ r_out' = RaisedError(e)
            /\ UNCHANGED sleeps
       ELSE /\ r_pc' = "sleeping"
            /\ sleeps' = Append(sleeps, backoff)
            /\ UNCHANGED r_out
    /\ UNCHANGED <<max_retries, initial_backoff, backoff, sched_vars,
                   text_vars, svc_vars>>

\* backoff *= 2
BackoffKept(b) == b
NextBackoff(b) == b * 2

\* asyncio.sleep returned: backoff *= 2
SleepDone ==
    /\ r_pc = "sleeping"
    /\ backoff' = NextBackoff(backoff)
    /\ r_pc' = "loop"
    /\ UNCHANGED <<max_retries, initial_backoff, retries, attempts, sleeps, r_out,
                   sched_vars, text_vars, svc_vars>>

RetryNext ==
    \/ RetryAttempt
    \/ RetryFallThrough
    \/ \E v \in Values : FuncReturns(v)
    \/ \E e \in Errors : FuncRaises(e)
    \/ SleepDone

----------------------------------------------------------------------------
(* Text: a sequence of characters. The regular expressions of the renderer *)

\* the character U+0060 (grave accent), which a TLA+ string cannot hold
Backtick == "bt"

\* "." of a pattern compiled without re.DOTALL
Dot(c) == c # "\n"

\* every character of t[a..b] is matched by "."
Dots(t, a, b) == \A x \in a..b : Dot(t[x])

\* the text p stands in t at index i
MatchAt(t, i, p) ==
    /\ i >= 1
    /\ i + Len(p) - 1 <= Len(t)
    /\ \A x \in 1..Len(p) : t[i + x - 1] = p[x]

Min(S) == CHOOSE x \in S : \A y \in S : x <= y

\* a match: t[from..to] is the match, t[gfrom..gto] its group 1
NoMatch == [found |-> FALSE, from |-> 0, to |-> 0, gfrom |-> 0, gto |-> 0]
Match(i, j, a, b) == [found |-> TRUE, from |-> i, to |-> j, gfrom |-> a, gto |-> b]

\* re.search: the leftmost start at which the pattern matches, there the shortest
\* group 1 (.+?) with which the rest of the pattern matches. For each pattern,
\* ...Lens(t, i) is the set of the lengths of group 1 that match at start i.
Group(t, m) == SubSeq(t, m.gfrom, m.gto)
BeforeMatch(t, m) == SubSeq(t, 1, m.from - 1)
AfterMatch(t, m) == SubSeq(t, m.to + 1, Len(t))

\* r"\[(.+?)\]\((.+?)\)" at start i with group 1 of length k: the lengths of group 2
LinkUrlLens(t, i, k) ==
    {m \in 1..Len(t) :
        /\ i + k + 3 + m <= Len(t)
        /\ Dots(t, i + k + 3, i + k + 2 + m)
        /\ t[i + k + 3 + m] = ")"}

LinkLens(t, i) ==
    {k \in 1..Len(t) :
        /\ t[i] = "["
        /\ i + k + 2 <= Len(t)
        /\ Dots(t, i + 1, i + k)
        /\ t[i + k + 1] = "]"
        /\ t[i + k + 2] = "("
        /\ LinkUrlLens(t, i, k) # {}}

\* re.search(r"\[(.+?)\]\((.+?)\)", t)
LinkSearch(t) ==
    LET starts == {i \in 1..Len(t) : LinkLens(t, i) # {}}
    IN  IF starts = {} THEN NoMatch
        ELSE LET i == Min(starts)
                 k == Min(LinkLens(t, i))
                 m == Min(LinkUrlLens(t, i, k))
             IN  Match(i, i + k + 3 + m, i + 1, i + k)

BoldLens(t, i) ==
    {k \in 1..Len(t) :
        /\ MatchAt(t, i, <<"*", "*">>)
        /\ i + k + 3 <= Len(t)
        /\ Dots(t, i + 2, i + k + 1)
        /\ MatchAt(t, i + k + 2, <<"*", "*">>)}

\* re.search(r"\*\*(.+?)\*\*", t)
BoldSearch(t) ==
    LET starts == {i \in 1..Len(t) : BoldLens(t, i) # {}}
    IN  IF starts = {} THEN NoMatch
        ELSE LET i == Min(starts)
                 k == Min(BoldLens(t, i))
             IN  Match(i, i + k + 3, i + 2, i + k + 1)

\* (?<!\*)\*(?!\*) at index i: an asterisk with no asterisk next to it
LoneStar(t, i) ==
    /\ i >= 1 /\ i <= Len(t)
    /\ t[i] = "*"
    /\ (i = 1 \/ t[i - 1] # "*")
    /\ (i = Len(t) \/ t[i + 1] # "*")

ItalicLens(t, i) ==
    {k \in 1..Len(t) :
        /\ LoneStar(t, i)
        /\ i + k + 1 <= Len(t)
        /\ Dots(t, i + 1, i + k)
        /\ LoneStar(t, i + k + 1)}

\* re.search(r"(?<!\*)\*(?!\*)(.+?)(?<!\*)\*(?!\*)", t)
ItalicSearch(t) ==
    LET starts == {i \in 1..Len(t) : ItalicLens(t, i) # {}}
    IN  IF starts = {} THEN NoMatch
        ELSE LET i == Min(starts)
                 k == Min(ItalicLens(t, i))
             IN  Match(i, i + k + 1, i + 1, i + k)

CodeLens(t, i) ==
    {k \in 1..Len(t) :
        /\ t[i] = Backtick
        /\ i + k + 1 <= Len(t)
        /\ Dots(t, i + 1, i + k)
        /\ t[i + k + 1] = Backtick}

\* re.search of a backtick, (.+?), a backtick
CodeSearch(t) ==
    LET starts == {i \in 1..Len(t) : CodeLens(t, i) # {}}
    IN  IF starts = {} THEN NoMatch
        ELSE LET i == Min(starts)
                 k == Min(CodeLens(t, i))
             IN  Match(i, i + k + 1, i + 1, i + k)

----------------------------------------------------------------------------
(* Text: the string methods and patterns of _convert_markdown_to_docx *)

\* whitespace: \s of a pattern, and what str.strip() removes
IsSpace(c) == c \in {" ", "\n"}

\* \d of a pattern
IsDigit(c) == c \in {"1", "2", "3", "4"}

\* t.startswith(p)
StartsWith(t, p) == MatchAt(t, 1, p)

\* p in t
Contains(t, p) == \E i \in 1..Len(t) : MatchAt(t, i, p)

\* t.find(p), 1-based; 0 when p is not in t
Find(t, p) ==
    IF Contains(t, p) THEN Min({i \in 1..Len(t) : MatchAt(t, i, p)}) ELSE 0

RECURSIVE Split(_, _)
\* t.split(sep)
Split(t, sep) ==
    LET i == Find(t, sep)
    IN  IF i = 0 THEN <<t>>
        ELSE <<SubSeq(t, 1, i - 1)>> \o Split(SubSeq(t, i + Len(sep), Len(t)), sep)

RECURSIVE Replace(_, _, _)
\* t.replace(old, new)
Replace(t, old, new) ==
    LET i == Find(t, old)
    IN  IF i = 0 THEN t
        ELSE SubSeq(t, 1, i - 1) \o new
             \o Replace(SubSeq(t, i + Len(old), Len(t)), old, new)

\* t.strip(chars): cs is the set of the characters removed at both ends
StripSet(t, cs) ==
    LET keep == {i \in 1..Len(t) : t[i] \notin cs}
    IN  IF keep = {} THEN <<>>
        ELSE SubSeq(t, Min(keep), CHOOSE j \in keep : \A x \in keep : x <= j)

\* t.strip()
Strip(t) == StripSet(t, {" ", "\n"})

\* the length of the match of r"\d+\.\s" at index i of t, 0 when there is none
NumberMarker(t, i) ==
    LET stops == {j \in i..Len(t) : ~IsDigit(t[j])}
        dot == IF stops = {} THEN Len(t) + 1 ELSE Min(stops)
    IN  IF /\ dot > i
           /\ dot + 1 <= Len(t)
           /\ t[dot] = "."
           /\ IsSpace(t[dot + 1])
        THEN dot + 2 - i
        ELSE 0

RECURSIVE NormalizeFrom(_, _)
\* re.sub(r"^(\d+)\.\s", r"1. ", markdown_text, flags=re.MULTILINE) from index i on
NormalizeFrom(t, i) ==
    IF i > Len(t) THEN <<>>
    ELSE IF (i = 1 \/ t[i - 1] = "\n") /\ NumberMarker(t, i) > 0
         THEN <<"1", ".", " ">> \o NormalizeFrom(t, i + NumberMarker(t, i))
    ELSE <<t[i]>> \o NormalizeFrom(t, i + 1)

KeepNumbers(t) == t
NormalizeNumbers(t) == NormalizeFrom(t, 1)

\* re.match(r"^(#+)\s+(.+)$", t): group 1 is the leading run of #, \s+ takes as
\* much whitespace as leaves a match, (.+) runs to the end of t or to its final
\* newline. [found, level, text]
HeaderMatch(t) ==
    LET others == {j \in 1..Len(t) : t[j] # "#"}
        h == IF others = {} THEN Len(t) ELSE Min(others) - 1
        last == IF t # <<>> /\ t[Len(t)] = "\n" THEN {Len(t) - 1, Len(t)} ELSE {Len(t)}
        ws == {k \in 1..Len(t) :
                 /\ h + k < Len(t)
                 /\ \A x \in (h + 1)..(h + k) : IsSpace(t[x])
                 /\ \E e \in last : e > h + k /\ Dots(t, h + k + 1, e)}
    IN  IF h >= 1 /\ ws # {}
        THEN LET k == CHOOSE x \in ws : \A y \in ws : y <= x
                 e == CHOOSE x \in last :
                        /\ x > h + k /\ Dots(t, h + k + 1, x)
                        /\ \A y \in last : (y > h + k /\ Dots(t, h + k + 1, y)) => y <= x
             IN  [found |-> TRUE, level |-> h, text |-> SubSeq(t, h + k + 1, e)]
        ELSE [found |-> FALSE, level |-> 0, text |-> <<>>]

\* re.search(r"!\[(.+?)\]\((.+?)\)", t): group 1 the caption, group 2 the description
ImageSearch(t) ==
    LET starts == {i \in 1..Len(t) : t[i] = "!" /\ i < Len(t) /\ LinkLens(t, i + 1) # {}}
    IN  IF starts = {} THEN NoMatch
        ELSE LET i == Min(starts)
                 k == Min(LinkLens(t, i + 1))
                 m == Min(LinkUrlLens(t, i + 1, k))
             IN  Match(i, i + k + 4 + m, i + 2, i + k + 1)

\* group 2 of a link or image match
Group2(t, m) == SubSeq(t, m.gto + 3, m.to - 1)

\* the fence of a code block: three backticks
Fence == <<Backtick, Backtick, Backtick>>

\* re.match with re.DOTALL of: ^, a fence, (.*?), \n, (.*?), a fence, $.
\* [found, language, code]
CodeBlockMatch(t) ==
    LET nls == {i \in 4..Len(t) : t[i] = "\n"}
        ends == {e \in {Len(t), Len(t) - 1} :
                   /\ e = Len(t) \/ t[Len(t)] = "\n"
                   /\ MatchAt(t, e - 2, Fence)}
    IN  IF StartsWith(t, Fence) /\ nls # {} /\ \E e \in ends : e - 2 > Min(nls)
        THEN LET n == Min(nls)
                 e == Min({x \in ends : x - 2 > n})
             IN  [found |-> TRUE, language |-> SubSeq(t, 4, n - 1),
                  code |-> SubSeq(t, n + 1, e - 3)]
        ELSE [found |-> FALSE, language |-> <<>>, code |-> <<>>]

----------------------------------------------------------------------------
(* ContentWriterAgent._convert_markdown_to_docx *)

\* A block added to the document. level is the heading level or the number of
\* columns of a table; text is the text handed to the inline formatter or put in
\* the block; extra is the language of a code block or the cells of a table, row
\* after row, each cell the texts formatted into it.
Blk(kind, level, text, extra) ==
    [kind |-> kind, level |-> level, text |-> text, extra |-> extra]

\* what rendering one chunk, or its rest, gives: the blocks added, and whether
\* the renderer goes on to the next chunk, awaits an image or raises
Rendered(blocks, stop) == [blocks |-> blocks, stop |-> stop]

\* the list rule: one block per line that starts with a marker, other lines dropped
ListLine(line) ==
    IF StartsWith(line, <<"-", " ">>) \/ StartsWith(line, <<"*", " ">>)
    THEN <<Blk("bullet", 0, SubSeq(line, 3, Len(line)), <<>>)>>
    ELSE IF NumberMarker(line, 1) > 0
         THEN <<Blk("number", 0, SubSeq(line, NumberMarker(line, 1) + 1, Len(line)), <<>>)>>
    ELSE <<>>

RECURSIVE ListBlocks(_)
ListBlocks(lines) ==
    IF lines = <<>> THEN <<>> ELSE ListLine(Head(lines)) \o ListBlocks(Tail(lines))

\* cells = [cell.strip() for cell in line.strip("|").split("|")]
RowCells(line) ==
    LET parts == Split(StripSet(line, {"|"}), <<"|">>)
    IN  [j \in 1..Len(parts) |-> Strip(parts[j])]

\* table_data: the cells of the lines without "---"
TableData(lines) ==
    LET kept == SelectSeq(lines, LAMBDA l : ~Contains(l, <<"-", "-", "-">>))
    IN  [i \in 1..Len(kept) |-> RowCells(kept[i])]

\* table.cell(i, j) of a table of n rows and c columns: the cell at the offset
\* j + i * c of the row-major cell list (i, j from 0); past its end, IndexError
CellOffset(i, j, c) == j + i * c

\* the pairs (i, j) of the fill loop, in the order of the loop, as offsets into
\* the sequence of all cells of table_data
FillOrder(table_data) ==
    LET n == Len(table_data)
        RECURSIVE From(_)
        From(i) == IF i > n THEN <<>>
                   ELSE [j \in 1..Len(table_data[i]) |-> <<i - 1, j - 1>>] \o From(i + 1)
    IN  From(1)

\* the fill loop stops at the first cell past the end of the table
FillRaises(table_data) ==
    LET n == Len(table_data)
        c == Len(table_data[1])
    IN  \E i \in 1..n : \E j \in 1..Len(table_data[i]) :
            CellOffset(i - 1, j - 1, c) >= n * c

\* the cells after the fill loop, or after the part of it that ran
FilledCells(table_data) ==
    LET n == Len(table_data)
        c == Len(table_data[1])
        order == FillOrder(table_data)
        bad == {x \in 1..Len(order) : CellOffset(order[x][1], order[x][2], c) >= n * c}
        ran == IF bad = {} THEN Len(order) ELSE Min(bad) - 1
    IN  [o \in 1..(n * c) |->
            LET hits == SelectSeq(SubSeq(order, 1, ran),
                                  LAMBDA ij : CellOffset(ij[1], ij[2], c) = o - 1)
            IN  [x \in 1..Len(hits) |-> table_data[hits[x][1] + 1][hits[x][2] + 1]]]

\* the quote, code block and paragraph rules, for a chunk or what is left of it
\* after its image
RenderRest(pt) ==
    IF StartsWith(pt, <<">", " ">>)
    THEN <<Blk("quote", 0, Replace(pt, <<">", " ">>, <<>>), <<>>)>>
    ELSE IF CodeBlockMatch(pt).found
         THEN <<Blk("code", 0, CodeBlockMatch(pt).code, Strip(CodeBlockMatch(pt).language))>>
    ELSE <<Blk("para", 0, pt, <<>>)>>

\* paragraph_text after the image rule: the image markdown removed; nothing more
\* is rendered when only whitespace is left
AfterImage(pt, m) ==
    LET left == Replace(pt, SubSeq(pt, m.from, m.to), <<>>)
    IN  IF Strip(left) = <<>> THEN <<>> ELSE RenderRest(left)

\* One pass of the loop body for the chunk pt, up to the image call if there is
\* one: the heading, list and table rules, then the image rule.
RenderChunk(pt, with_images) ==
    IF Strip(pt) = <<>> THEN Rendered(<<>>, "next")
    ELSE IF HeaderMatch(pt).found
         THEN Rendered(<<Blk("heading", HeaderMatch(pt).level, HeaderMatch(pt).text, <<>>)>>,
                       "next")
    ELSE IF \/ StartsWith(pt, <<"-", " ">>)
            \/ StartsWith(pt, <<"*", " ">>)
            \/ NumberMarker(pt, 1) > 0
         THEN Rendered(ListBlocks(Split(pt, <<"\n">>)), "next")
    ELSE LET lines == Split(Strip(pt), <<"\n">>)
             is_table == /\ Contains(pt, <<"|">>)
                         /\ \A i \in DOMAIN lines : Contains(lines[i], <<"|">>)
                         /\ TableData(lines) # <<>>
         IN  IF is_table
             THEN LET td == TableData(lines)
                      table == Blk("table", Len(td[1]), <<>>, FilledCells(td))
                  IN  IF FillRaises(td)
                      THEN Rendered(<<table>>, "raise")
                      ELSE Rendered(<<table, Blk("spacer", 0, <<>>, <<>>)>>, "next")
             ELSE IF ImageSearch(pt).found /\ with_images
                  THEN Rendered(<<>>, "await")
             ELSE Rendered(RenderRest(pt), "next")

\* the blocks _add_image adds when nothing stops it: spacing, the picture, the
\* caption paragraph, spacing
AllImageBlocks(caption) ==
    <<Blk("spacer", 0, <<>>, <<>>), Blk("picture", 0, <<>>, <<>>),
      Blk("caption", 0, <<"F", "i", "g", "u", "r", "e", ":", " ">> \o caption, <<>>),
      Blk("spacer", 0, <<>>, <<>>)>>

\* how many of them _add_image adds before it returns: none when there is no
\* file at the path; the spacing when add_picture raises; the picture too when
\* picture._parent raises; the caption too when its alignment or style raises;
\* all of them otherwise. Its "except Exception" ends the call without raising.
AddedByImage == 0..Len(AllImageBlocks(<<>>))

ImageBlocks(caption, added) == SubSeq(AllImageBlocks(caption), 1, added)

\* doc.add_paragraph("[Image generation failed]")
PlaceholderBlocks == <<Blk("imgfail", 0, <<>>, <<>>)>>

\* _generate_and_save_image: if not description or len(description) < 10: return None
DescriptionAlwaysTaken(description) == FALSE
DescriptionRejected(description) == Len(description) < MinDescriptionLen

\* what a _generate_and_save_image call came to: backend is "none" when the
\* description was rejected, "raised" when ImageGenerationAgent() raised inside
\* the try (its execute is not called then), else what execute returned
ImageResult(description, backend, result) ==
    [description |-> description, backend |-> backend, result |-> result]

\* The texts handed to _convert_markdown_to_docx
Hashes(n) == [i \in 1..n |-> "#"]

\* an image description of n characters
Description(n) == [i \in 1..n |-> "d"]

RECURSIVE Join(_, _)
\* sep.join(lines)
Join(lines, sep) ==
    IF lines = <<>> THEN <<>>
    ELSE IF Len(lines) = 1 THEN lines[1]
    ELSE lines[1] \o sep \o Join(Tail(lines), sep)

\* the chunks of at most n lines taken from the set L
ChunksOf(L, n) == {Join(ls, <<"\n">>) : ls \in UNION {[1..k -> L] : k \in 1..n}}

HeadingChunks ==
    {Hashes(n) \o sep \o body :
        n \in 0..MaxHashes, sep \in {<<>>, <<" ">>, <<"\n">>},
        body \in {<<>>, <<"a">>, <<"a", "\n", "b">>, <<"a", " ", "b">>}}

ListLines == {<<"4", "1", ".", " ", "a">>, <<"4", "2", ".", " ", "b">>, <<"3", ".", " ", "c">>, <<"-", " ", "a">>, <<"b">>}

TableLines == {<<"|", "a", "|", "b", "|">>, <<"|", "-", "-", "-", "|">>, <<"a", "|", "b", "|", "c">>, <<"|", " ", "c", " ", "|">>, <<"d">>}

ImageRef(n) == <<"!", "[", "c", "]", "(">> \o Description(n) \o <<")">>

ImageChunks ==
    {pre \o ImageRef(n) \o post :
        pre \in {<<>>, <<"-", " ">>, <<"#", " ">>, <<"a", " ">>, <<">", " ">>, <<"a", "|">>},
        n \in {1, MinDescriptionLen - 1, MinDescriptionLen},
        post \in {<<>>, <<" ", "a">>, <<"\n", ">", " ", "q">>, <<" ">> \o ImageRef(MinDescriptionLen),
                  <<" ">> \o ImageRef(MinDescriptionLen + 1)}}

OtherChunks ==
    {<<">", " ", "a">>, <<">", " ", "a", "\n", ">", " ", "b">>, <<"a", " ", ">", " ", "b">>,
     Fence \o <<"p", "y", "\n", "x">> \o Fence, Fence \o <<"\n", "x", "\n">> \o Fence, Fence \o <<"x">> \o Fence,
     <<"a">>, <<" ">>, <<"1", ".", "\n", "a">>, <<"a", "\n", "4", ".", " ", "b">>,
     <<" ", "1", ".", "\n", "a">>, <<">", " ", "a", " ", ">", " ", "b">>,
     <<"|", "a", "-", "-", "-", "b", "|", "\n", "|", "c", "|">>,
     <<"|", "a", "|", "\n", "-", "|", "-">>,
     ImageRef(MinDescriptionLen) \o <<"-", " ", "a">>,
     ImageRef(MinDescriptionLen) \o <<"#", " ", "a">>}

SingleChunks ==
    HeadingChunks \cup ChunksOf(ListLines, MaxLines) \cup ChunksOf(TableLines, MaxLines)
    \cup ImageChunks \cup OtherChunks

PairedChunks ==
    {<<"#", " ", "a">>, <<"4", "1", ".", " ", "a">> \o <<"\n">> \o <<"4", "2", ".", " ", "b">>, <<"|", "a", "|", "b", "|">> \o <<"\n">> \o <<"|", "-", "-", "-", "|">>, ImageRef(MinDescriptionLen),
     ImageRef(MinDescriptionLen - 1), <<"a">>, <<" ">>}

ConvertInputs ==
    {<<>>} \cup SingleChunks
    \cup {c1 \o sep \o c2 : c1 \in PairedChunks, c2 \in PairedChunks,
                            sep \in {<<"\n", "\n">>, <<"\n", "\n", "\n">>}}

ConvertInit ==
    /\ markdown_text \in ConvertInputs
    /\ images_dir \in BOOLEAN
    /\ cv_pc = "start"
    /\ paragraphs = <<>>
    /\ paragraph_text = <<>>
    /\ docx = <<>>
    /\ image_requests = <<>>
    /\ backend_calls = <<>>
    /\ image_results = <<>>
    /\ f_text = <<>>
    /\ f_pc = "idle"
    /\ f_runs = <<>>
    /\ SchedIdle
    /\ RetryIdle
    /\ PathIdle /\ ApiIdle /\ BatchIdle /\ AgentsIdle

\* "if not markdown_text: return"; else the numbered markers are normalised and the
\* text is split into chunks
ConvertStart ==
    /\ cv_pc = "start"
    /\ IF markdown_text = <<>>
       THEN cv_pc' = "done" /\ paragraphs' = paragraphs
       ELSE /\ paragraphs' = Split(Strip(NormalizeNumbers(markdown_text)), <<"\n", "\n">>)
            /\ cv_pc' = "loop"
    /\ UNCHANGED <<markdown_text, images_dir, paragraph_text, docx, image_requests,
                   backend_calls, image_results, format_vars, sched_vars, retry_vars, svc_vars>>

\* one pass of "for paragraph_index, paragraph_text in enumerate(paragraphs)", up
\* to the end of the chunk or to the await of ImageGenerationAgent.execute.
\* built: ImageGenerationAgent() returns an agent; when it raises (no
\* OPENAI_API_KEY, no output directory), "except Exception" returns None
\* before execute is called, and the chunk is finished in the same pass.
ConvertParagraph(built) ==
    /\ cv_pc = "loop"
    /\ paragraphs # <<>>
    /\ LET pt == Head(paragraphs)
           r == RenderChunk(pt, images_dir)
           m == ImageSearch(pt)
       IN  /\ paragraphs' = Tail(paragraphs)
           /\ CASE r.stop = "next" ->
                     /\ docx' = docx \o r.blocks
                     /\ UNCHANGED <<cv_pc, paragraph_text, image_requests, backend_calls,
                                    image_results>>
                [] r.stop = "raise" ->
                     /\ docx' = docx \o r.blocks
                     /\ cv_pc' = "raised"
                     /\ UNCHANGED <<paragraph_text, image_requests, backend_calls,
                                    image_results>>
                [] r.stop = "await" /\ DescriptionRejected(Group2(pt, m)) ->
                     /\ image_requests' = Append(image_requests, Group2(pt, m))
                     /\ image_results' =
                            Append(image_results, ImageResult(Group2(pt, m), "none", "None"))
                     /\ docx' = docx \o PlaceholderBlocks \o AfterImage(pt, m)
                     /\ UNCHANGED <<cv_pc, paragraph_text, backend_calls>>
                [] r.stop = "await" /\ ~DescriptionRejected(Group2(pt, m)) /\ ~built ->
                     /\ image_requests' = Append(image_requests, Group2(pt, m))
                     /\ image_results' =
                            Append(image_results, ImageResult(Group2(pt, m), "raised", "None"))
                     /\ docx' = docx \o PlaceholderBlocks \o AfterImage(pt, m)
                     /\ UNCHANGED <<cv_pc, paragraph_text, backend_calls>>
                [] r.stop = "await" /\ ~DescriptionRejected(Group2(pt, m)) /\ built ->
                     /\ image_requests' = Append(image_requests, Group2(pt, m))
                     /\ backend_calls' = Append(backend_calls, Group2(pt, m))
                     /\ paragraph_text' = pt
                     /\ cv_pc' = "backend"
                     /\ UNCHANGED <<docx, image_results>>
    /\ UNCHANGED <<markdown_text, images_dir, format_vars, sched_vars, retry_vars, svc_vars>>

\* image_agent.execute ends: result["success"] with a path, or no success
\* (generate_image catches every exception of the backend and returns None, so
\* that execute does not raise); with a path _add_image adds some of its
\* blocks; the chunk is finished
ImageBackendReturns(outcome, added) ==
    /\ cv_pc = "backend"
    /\ LET pt == paragraph_text
           m == ImageSearch(pt)
           result == IF outcome = "path" THEN "path" ELSE "None"
       IN  /\ image_results' =
                  Append(image_results, ImageResult(Group2(pt, m), outcome, result))
           /\ docx' = docx
                      \o (IF result = "path" THEN ImageBlocks(Group(pt, m), added)
                          ELSE PlaceholderBlocks)
                      \o AfterImage(pt, m)
    /\ paragraph_text' = <<>>
    /\ cv_pc' = "loop"
    /\ UNCHANGED <<markdown_text, images_dir, paragraphs, image_requests, backend_calls,
                   format_vars, sched_vars, retry_vars, svc_vars>>

\* the loop is over
ConvertReturn ==
    /\ cv_pc = "loop"
    /\ paragraphs = <<>>
    /\ cv_pc' = "done"
    /\ UNCHANGED <<markdown_text, images_dir, paragraphs, paragraph_text, docx,
                   image_requests, backend_calls, image_results, format_vars,
                   sched_vars, retry_vars, svc_vars>>

ConvertNext ==
    \/ ConvertStart
    \/ \E built \in BOOLEAN : ConvertParagraph(built)
    \/ \E outcome \in {"path", "failed"} :
          \E added \in (IF outcome = "path" THEN AddedByImage ELSE {0}) :
              ImageBackendReturns(outcome, added)
    \/ ConvertReturn

----------------------------------------------------------------------------
(* ContentWriterAgent._process_formatting *)

\* a run added to the paragraph
Run(style, text) == [style |-> style, text |-> text]

\* the run of a bold match and the run of the italic span nested in it: the bold
\* run is added first, and the text before and after the italic span goes into it
BoldRuns(inner_text) ==
    LET italic_match == ItalicSearch(inner_text)
    IN  IF italic_match.found
        THEN <<Run("bold", BeforeMatch(inner_text, italic_match)
                           \o AfterMatch(inner_text, italic_match)),
               Run("bolditalic", Group(inner_text, italic_match))>>
        ELSE <<Run("bold", inner_text)>>

\* the same for an italic match and the bold span nested in it
ItalicRuns(inner_text) ==
    LET bold_match == BoldSearch(inner_text)
    IN  IF bold_match.found
        THEN <<Run("italic", BeforeMatch(inner_text, bold_match)
                             \o AfterMatch(inner_text, bold_match)),
               Run("bolditalic", Group(inner_text, bold_match))>>
        ELSE <<Run("italic", inner_text)>>

\* the runs of one match m of the pattern of style st in t
SpanRuns(st, t, m) ==
    CASE st = "link" -> <<Run("link", Group(t, m))>>
      [] st = "bold" -> BoldRuns(Group(t, m))
      [] st = "italic" -> ItalicRuns(Group(t, m))
      [] st = "code" -> <<Run("code", Group(t, m))>>

RECURSIVE ProcessFormatting(_)
\* if before_text: self._process_formatting(paragraph, before_text)
BeforeDropped(t, m) == <<>>
BeforeText(t, m) ==
    IF m.from > 1 THEN ProcessFormatting(BeforeMatch(t, m)) ELSE <<>>

\* while remaining_text: the first pattern of link, bold, italic, code that is
\* found anywhere in remaining_text is taken
ProcessFormatting(t) ==
    IF t = <<>> THEN <<>>
    ELSE LET st == IF LinkSearch(t).found THEN "link"
                   ELSE IF BoldSearch(t).found THEN "bold"
                   ELSE IF ItalicSearch(t).found THEN "italic"
                   ELSE IF CodeSearch(t).found THEN "code"
                   ELSE "plain"
             m == CASE st = "link" -> LinkSearch(t)
                    [] st = "bold" -> BoldSearch(t)
                    [] st = "italic" -> ItalicSearch(t)
                    [] st = "code" -> CodeSearch(t)
                    [] OTHER -> NoMatch
         IN  IF st = "plain" THEN <<Run("plain", t)>>
             ELSE BeforeText(t, m) \o SpanRuns(st, t, m)
                  \o ProcessFormatting(AfterMatch(t, m))

\* Texts handed to _apply_inline_formatting: every concatenation of at most
\* MaxTokens tokens, the nested spans and the texts of two lines.
Tokens ==
    {<<"a">>, <<"\n">>, <<"*">>, <<"*", "*">>, <<Backtick>>, <<"[">>, <<"]", "(", "a", ")">>}

RECURSIVE TokenTexts(_)
TokenTexts(n) ==
    IF n = 0 THEN {<<>>}
    ELSE LET S == TokenTexts(n - 1)
         IN  S \cup {x \o tk : x \in S, tk \in Tokens}

\* open x inner y inner z open, as in **bold with *italic* inside**
NestedTexts ==
    {p \o o[1] \o x \o o[2] \o <<"b">> \o o[2] \o z \o o[1] \o q :
        o \in {<<<<"*", "*">>, <<"*">>>>, <<<<"*">>, <<"*", "*">>>>},
        x \in {<<>>, <<"a">>, <<"a", " ">>}, z \in {<<>>, <<"c">>, <<" ", "c">>},
        p \in {<<>>, <<"a">>}, q \in {<<>>, <<"c">>}}

\* texts of two lines, as the paragraph and quote rules hand them over: a bold
\* span or an italic span with a line break inside, and plain lines
TwoLineTexts ==
    {p \o o \o <<"b", "\n", "c">> \o o \o q :
        o \in {<<"*", "*">>, <<"*">>, <<>>}, p \in {<<>>, <<"a">>}, q \in {<<>>, <<"d">>}}

FormatInputs == TokenTexts(MaxTokens) \cup NestedTexts \cup TwoLineTexts

ConvertIdle ==
    /\ markdown_text = <<>>
    /\ images_dir = FALSE
    /\ cv_pc = "idle"
    /\ paragraphs = <<>>
    /\ paragraph_text = <<>>
    /\ docx = <<>>
    /\ image_requests = <<>>
    /\ backend_calls = <<>>
    /\ image_results = <<>>

FormatInit ==
    /\ f_text \in FormatInputs
    /\ f_pc = "ready"
    /\ f_runs = <<>>
    /\ ConvertIdle
    /\ SchedIdle
    /\ RetryIdle
    /\ PathIdle /\ ApiIdle /\ BatchIdle /\ AgentsIdle

\* _apply_inline_formatting(paragraph, text)
ApplyInlineFormatting ==
    /\ f_pc = "ready"
    /\ f_runs' = ProcessFormatting(f_text)
    /\ f_pc' = "done"
    /\ UNCHANGED <<f_text, convert_vars, sched_vars, retry_vars, svc_vars>>

FormatNext == ApplyInlineFormatting

----------------------------------------------------------------------------
(* ContentWriterAgent.execute: the output path *)

\* filename = title.replace(" ", "_").replace(":", "_").replace("/", "_")
Filename(t) ==
    Replace(Replace(Replace(t, <<" ">>, <<"_">>), <<":">>, <<"_">>), <<"/">>, <<"_">>)

\* output_path = f"output/{filename}.docx"
OutputPath(t) ==
    <<"o", "u", "t", "p", "u", "t", "/">> \o Filename(t) \o <<".", "d", "o", "c", "x">>

\* the characters of the titles: letters, a digit, and characters that are neither
TitleChars == {"a", "Z", "7", " ", ":", "/", "?"}

Titles == UNION {[1..n -> TitleChars] : n \in 0..MaxTitleLen}

PathInit ==
    /\ title \in Titles
    /\ path_pc = "start"
    /\ output_path = <<>>
    /\ SchedIdle /\ RetryIdle /\ TextIdle /\ ApiIdle /\ BatchIdle /\ AgentsIdle

\* execute from "title = structure.title" to "output_path = ..."
FormatOutputPath ==
    /\ path_pc = "start"
    /\ output_path' = OutputPath(title)
    /\ path_pc' = "done"
    /\ UNCHANGED <<title, sched_vars, retry_vars, text_vars, agent_vars, api_vars, batch_vars>>

PathNext == FormatOutputPath

----------------------------------------------------------------------------
(* main.py: the HTTP service, and the task registry of OrchestratorAgent *)

\* the task_id None of a response, and the id of no task
NoTask == 0

\* ReportStatus(id=task_id, status=..., topic=request.topic)
ReportStatus(id, status) == [id |-> id, status |-> status]

\* a response: to the n-th POST /generate-report, or to a GET
\* /report-status/{task_id}, asked stands for the task_id of the URL
Response(kind, asked, code, status, task_id) ==
    [kind |-> kind, asked |-> asked, code |-> code, status |-> status, task_id |-> task_id]

\* self.active_tasks.get(task_id)
GetTaskStatus(tid) ==
    IF \E i \in DOMAIN active_tasks : active_tasks[i].id = tid
    THEN active_tasks[CHOOSE i \in DOMAIN active_tasks : active_tasks[i].id = tid]
    ELSE ReportStatus(NoTask, "none")

ApiInit ==
    /\ active_tasks = <<>>
    /\ background = {}
    /\ responses = <<>>
    /\ generations = <<>>
    /\ SchedIdle /\ RetryIdle /\ TextIdle /\ PathIdle /\ BatchIdle /\ AgentsIdle

\* POST /generate-report with a valid body: the background task is added, then the
\* response is built from "orchestrator.active_tasks[-1].id if
\* orchestrator.active_tasks else None". active_tasks is a dict keyed by the task
\* ids, which are uuid strings: when it is not empty, active_tasks[-1] raises
\* KeyError, which "except Exception" turns into HTTPException(500), and the
\* background task of a request that ends with an exception is not run.
GenerateReport ==
    /\ Len(generations) < MaxRequests
    /\ LET n == Len(generations) + 1
       IN  IF active_tasks = <<>>
           THEN /\ responses' = Append(responses, Response("post", n, 200, "accepted", NoTask))
                /\ background' = background \cup {n}
           ELSE /\ responses' = Append(responses, Response("post", n, 500, "-1", NoTask))
                /\ background' = background
    /\ generations' = Append(generations, NoTask)
    /\ UNCHANGED <<active_tasks, sched_vars, retry_vars, text_vars, agent_vars, path_vars, batch_vars>>

\* the background task of the n-th POST starts: OrchestratorAgent.execute makes a
\* new task id and registers it as in_progress, before its first await
OrchestratorExecuteStart(n) ==
    /\ n \in background
    /\ background' = background \ {n}
    /\ LET task_id == Len(active_tasks) + 1
       IN  /\ active_tasks' = Append(active_tasks, ReportStatus(task_id, "in_progress"))
           /\ generations' = [generations EXCEPT ![n] = task_id]
    /\ UNCHANGED <<responses, sched_vars, retry_vars, text_vars, agent_vars, path_vars, batch_vars>>

\* the generation ends: status completed, or failed in "except Exception"
OrchestratorExecuteEnd(i, status) ==
    /\ i \in DOMAIN active_tasks
    /\ active_tasks[i].status = "in_progress"
    /\ active_tasks' = [active_tasks EXCEPT ![i].status = status]
    /\ UNCHANGED <<background, responses, generations, sched_vars, retry_vars, text_vars, agent_vars,
                   path_vars, batch_vars>>

\* GET /report-status/{task_id}: 404 when get_task_status finds nothing
GetReportStatus(tid) ==
    /\ Len(responses) < 2 * MaxRequests
    /\ LET status == GetTaskStatus(tid)
       IN  responses' = Append(responses,
                               IF status.id = NoTask
                               THEN Response("get", tid, 404, "Task not found", NoTask)
                               ELSE Response("get", tid, 200, status.status, status.id))
    /\ UNCHANGED <<active_tasks, background, generations, sched_vars, retry_vars,
                   text_vars, agent_vars, path_vars, batch_vars>>

\* the task ids the POST responses returned
ReturnedTaskIds ==
    {responses[i].task_id : i \in {j \in DOMAIN responses : responses[j].kind = "post"}}

\* the task ids of the registry
RegisteredTaskIds == {active_tasks[i].id : i \in DOMAIN active_tasks}

ApiNext ==
    \/ GenerateReport
    \/ \E n \in background : OrchestratorExecuteStart(n)
    \/ \E i \in DOMAIN active_tasks : \E status \in {"completed", "failed"} :
          OrchestratorExecuteEnd(i, status)
    \/ \E tid \in ReturnedTaskIds \cup RegisteredTaskIds : GetReportStatus(tid)

----------------------------------------------------------------------------
(* ImageGenerationAgent._batch_generate_images *)

\* generate_image: if not description or len(description) < 10: return None
TooShort(description) == Len(description) < MinDescriptionLen

\* generate_image returns os.path.join(self.output_dir, f"{slugify(caption)}.png")
ImagePath(caption) == <<"output/images", caption>>

\* generate_image returns None
NoImage == <<"None">>

\* the call of generate_image has not ended
Pending == <<"pending">>

BatchPairs ==
    {[description |-> Description(n), caption |-> c] :
        n \in {MinDescriptionLen - 1, MinDescriptionLen}, c \in {"c1", "c2"}}

BatchInputs == UNION {[1..n -> BatchPairs] : n \in 0..MaxBatch}

BatchInit ==
    /\ batch_descriptions \in BatchInputs
    /\ batch_pc = "start"
    /\ batch_results = <<>>
    /\ batch_finished = <<>>
    /\ batch_out = <<>>
    /\ SchedIdle /\ RetryIdle /\ TextIdle /\ PathIdle /\ ApiIdle /\ AgentsIdle

\* tasks = [self.generate_image(desc, caption, ...) for desc, caption in
\* descriptions]; await asyncio.gather(*tasks) starts them
BatchStart ==
    /\ batch_pc = "start"
    /\ batch_results' = [i \in DOMAIN batch_descriptions |-> Pending]
    /\ batch_pc' = "gather"
    /\ UNCHANGED <<batch_descriptions, batch_finished, batch_out, sched_vars, retry_vars,
                   text_vars, agent_vars, path_vars, api_vars>>

\* the generate_image call of pair i ends: None for a short description, for no
\* image data, a failed download or any exception, else the path of the file
GenerateImageEnds(i, saved) ==
    /\ batch_pc = "gather"
    /\ i \in DOMAIN batch_results
    /\ batch_results[i] = Pending
    /\ batch_results' =
          [batch_results EXCEPT ![i] =
              IF TooShort(batch_descriptions[i].description) \/ ~saved
              THEN NoImage
              ELSE ImagePath(batch_descriptions[i].caption)]
    /\ batch_finished' = Append(batch_finished, i)
    /\ UNCHANGED <<batch_descriptions, batch_pc, batch_out, sched_vars, retry_vars,
                   text_vars, agent_vars, path_vars, api_vars>>

\* results = await asyncio.gather(*tasks): the results in the order of the tasks
GatherInCompletionOrder(res, fin) == [k \in DOMAIN fin |-> res[fin[k]]]
GatherResults(res, fin) == res

\* every call ended: the paths that are not None are counted and returned
BatchReturn ==
    /\ batch_pc = "gather"
    /\ \A i \in DOMAIN batch_results : batch_results[i] # Pending
    /\ LET results == GatherResults(batch_results, batch_finished)
           successful_paths == SelectSeq(results, LAMBDA path : path # NoImage)
           failed_count == Len(batch_descriptions) - Len(successful_paths)
       IN  batch_out' = [success |-> Len(successful_paths) > 0,
                         image_paths |-> successful_paths,
                         total |-> Len(batch_descriptions),
                         successful |-> Len(successful_paths),
                         failed |-> failed_count]
    /\ batch_pc' = "returned"
    /\ UNCHANGED <<batch_descriptions, batch_results, batch_finished, sched_vars,
                   retry_vars, text_vars, agent_vars, path_vars, api_vars>>

BatchNext ==
    \/ BatchStart
    \/ \E i \in DOMAIN batch_results : \E saved \in BOOLEAN : GenerateImageEnds(i, saved)
    \/ BatchReturn

----------------------------------------------------------------------------
(* OrchestratorAgent.execute *)

\* the awaited stages of execute, in the order of the try block
OrchStages == <<"plan", "research", "structure", "content">>

\* the stage awaited after stage st returned, "end" after the last one
StageAfter(st) ==
    LET k == CHOOSE i \in DOMAIN OrchStages : OrchStages[i] = st
    IN  IF k < Len(OrchStages) THEN OrchStages[k + 1] ELSE "end"

\* str(e) of the exception a stage raises
ErrorText(st) == <<"error in", st>>

NoError == <<>>

\* ReportStatus(id=task_id, status="in_progress", topic=request.topic); error
\* defaults to None
NewReportStatus(id) == [id |-> id, status |-> "in_progress", error |-> NoError]

\* self.active_tasks[task_id].status = "completed"
MarkCompleted(t) == [t EXCEPT !.status = "completed"]

\* except Exception as e: status = "failed", error = str(e)
MarkFailedWithoutError(t, e) == [t EXCEPT !.status = "failed"]
MarkFailed(t, e) == [t EXCEPT !.status = "failed", !.error = e]

\* call i is suspended in one of its stages
InStage(i) == \E k \in DOMAIN OrchStages : orch_pc[i] = OrchStages[k]

OrchInit ==
    /\ OrchIdle
    /\ SchedIdle /\ RetryIdle /\ TextIdle /\ PathIdle /\ ApiIdle /\ BatchIdle
    /\ ResearchIdle /\ ChainIdle /\ WsIdle

\* execute is called: a new uuid is made and registered as in_progress, and the
\* call is suspended in _generate_plan
OrchExecute ==
    /\ Len(orch_tasks) < MaxExecutes
    /\ LET task_id == Len(orch_tasks) + 1
       IN  orch_tasks' = Append(orch_tasks, NewReportStatus(task_id))
    /\ orch_pc' = Append(orch_pc, OrchStages[1])
    /\ orch_returned' = Append(orch_returned, <<>>)
    /\ orch_out' = Append(orch_out, "none")
    /\ UNCHANGED <<sched_vars, retry_vars, text_vars, path_vars, api_vars, batch_vars,
                   research_vars, chain_vars, ws_vars>>

\* the stage call i is suspended in returns: the next stage is awaited, or, after
\* writer_agent.execute, the status is set and the result is returned
StageReturns(i) ==
    /\ i \in DOMAIN orch_pc
    /\ InStage(i)
    /\ orch_returned' = [orch_returned EXCEPT ![i] = Append(@, orch_pc[i])]
    /\ IF StageAfter(orch_pc[i]) = "end"
       THEN /\ orch_tasks' = [orch_tasks EXCEPT ![i] = MarkCompleted(@)]
            /\ orch_pc' = [orch_pc EXCEPT ![i] = "returned"]
            /\ orch_out' = [orch_out EXCEPT ![i] = "completed"]
       ELSE /\ orch_pc' = [orch_pc EXCEPT ![i] = StageAfter(@)]
            /\ UNCHANGED <<orch_tasks, orch_out>>
    /\ UNCHANGED <<sched_vars, retry_vars, text_vars, path_vars, api_vars, batch_vars,
                   research_vars, chain_vars, ws_vars>>

\* the stage call i is suspended in raises an Exception: "except Exception as e"
\* records the failure and "raise" hands the exception to the caller
StageRaises(i) ==
    /\ i \in DOMAIN orch_pc
    /\ InStage(i)
    /\ orch_tasks' = [orch_tasks EXCEPT ![i] = MarkFailed(@, ErrorText(orch_pc[i]))]
    /\ orch_pc' = [orch_pc EXCEPT ![i] = "raised"]
    /\ orch_out' = [orch_out EXCEPT ![i] = ErrorText(orch_pc[i])]
    /\ UNCHANGED <<orch_returned, sched_vars, retry_vars, text_vars, path_vars, api_vars,
                   batch_vars, research_vars, chain_vars, ws_vars>>

OrchNext ==
    \/ OrchExecute
    \/ \E i \in DOMAIN orch_pc : StageReturns(i)
    \/ \E i \in DOMAIN orch_pc : StageRaises(i)

----------------------------------------------------------------------------
(* WebResearchAgent.execute *)

\* what the task of a question came to: still running, the dict returned by
\* _research_question for question q (with a usable answer, or one that the
\* processing of the result chokes on), or the exception raised after the retries
Outcome(kind, q) == [kind |-> kind, of |-> q]

\* ResearchResult(content=result["answer"], metadata={"question": question, ...})
ResearchResult(question, answer) == [question |-> question, content |-> answer]

\* the loop body reaches results.append for this result: it is not an exception
\* ("if isinstance(result, Exception): continue") and its processing does not
\* raise ("except Exception ... continue")
AlwaysAppended(result) == TRUE
Appendable(result) == result.kind = "answer"

\* for question, result in zip(questions, research_results): the results the
\* loop appends, in the order of the loop
ProcessResults(questions, research_results) ==
    LET n == IF Len(questions) < Len(research_results)
             THEN Len(questions) ELSE Len(research_results)
        zipped == [i \in 1..n |-> [question |-> questions[i], result |-> research_results[i]]]
        kept == SelectSeq(zipped, LAMBDA z : Appendable(z.result))
    IN  [k \in DOMAIN kept |-> ResearchResult(kept[k].question, kept[k].result.of)]

ResearchInit ==
    /\ rs_questions \in {[i \in 1..n |-> i] : n \in 0..MaxQuestions}
    /\ rs_pc = "start"
    /\ rs_tasks = <<>>
    /\ rs_retries = <<>>
    /\ rs_finished = <<>>
    /\ rs_out = <<>>
    /\ SchedIdle /\ RetryIdle /\ TextIdle /\ PathIdle /\ ApiIdle /\ BatchIdle
    /\ OrchIdle /\ ChainIdle /\ WsIdle

\* research_tasks = [...]; await asyncio.gather(*research_tasks,
\* return_exceptions=True) starts one task per question
ResearchExecuteStart ==
    /\ rs_pc = "start"
    /\ rs_pc' = "gather"
    /\ rs_tasks' = [q \in DOMAIN rs_questions |-> Outcome("running", q)]
    /\ rs_retries' = [q \in DOMAIN rs_questions |-> 0]
    /\ UNCHANGED <<rs_questions, rs_finished, rs_out, sched_vars, retry_vars, text_vars,
                   path_vars, api_vars, batch_vars, orch_vars, chain_vars, ws_vars>>

\* _research_question raises for question q: retry_with_backoff counts the
\* failure and raises when retries == max_retries, else it sleeps and calls
\* again; _research_question_with_logging logs and re-raises, the task ends
ResearchAttemptFails(q) ==
    /\ rs_pc = "gather"
    /\ q \in DOMAIN rs_tasks
    /\ rs_tasks[q].kind = "running"
    /\ rs_retries' = [rs_retries EXCEPT ![q] = @ + 1]
    /\ IF rs_retries[q] + 1 = ResearchMaxRetries
       THEN /\ rs_tasks' = [rs_tasks EXCEPT ![q] = Outcome("exception", q)]
            /\ rs_finished' = Append(rs_finished, q)
       ELSE UNCHANGED <<rs_tasks, rs_finished>>
    /\ UNCHANGED <<rs_questions, rs_pc, rs_out, sched_vars, retry_vars, text_vars,
                   path_vars, api_vars, batch_vars, orch_vars, chain_vars, ws_vars>>

\* _research_question returns its dict for question q: the task ends
ResearchAttemptReturns(q, kind) ==
    /\ rs_pc = "gather"
    /\ q \in DOMAIN rs_tasks
    /\ rs_tasks[q].kind = "running"
    /\ rs_tasks' = [rs_tasks EXCEPT ![q] = Outcome(kind, q)]
    /\ rs_finished' = Append(rs_finished, q)
    /\ UNCHANGED <<rs_questions, rs_pc, rs_retries, rs_out, sched_vars, retry_vars,
                   text_vars, path_vars, api_vars, batch_vars, orch_vars, chain_vars, ws_vars>>

\* every task ended: gather returns, the results are processed (no step of the
\* loop suspends) and returned
ResearchExecuteReturn ==
    /\ rs_pc = "gather"
    /\ \A q \in DOMAIN rs_tasks : rs_tasks[q].kind # "running"
    /\ LET research_results == GatherResults(rs_tasks, rs_finished)
       IN  rs_out' = ProcessResults(rs_questions, research_results)
    /\ rs_pc' = "returned"
    /\ UNCHANGED <<rs_questions, rs_tasks, rs_retries, rs_finished, sched_vars, retry_vars,
                   text_vars, path_vars, api_vars, batch_vars, orch_vars, chain_vars, ws_vars>>

ResearchNext ==
    \/ ResearchExecuteStart
    \/ \E q \in DOMAIN rs_tasks : ResearchAttemptFails(q)
    \/ \E q \in DOMAIN rs_tasks : \E kind \in {"answer", "malformed"} :
          ResearchAttemptReturns(q, kind)
    \/ ResearchExecuteReturn

----------------------------------------------------------------------------
(* tasks/report_tasks.py: generate_report and the chain of its four tasks *)

\* Task(report_id=report.id, task_type=..., status=TaskStatus.PENDING), four times
NewSubtasks == [t \in {"research", "structure", "content", "image"} |-> "pending"]

\* report.status after generate_content succeeded:
\* TaskStatus.COMPLETED if not report.include_images else TaskStatus.IN_PROGRESS
StatusAfterContent(images) == IF images THEN "in_progress" ELSE "completed"

\* how a step of a task ends: its statements run ("ok"); one of them raises and
\* the writes of the handler succeed ("raises"); one of them raises and the
\* handler fails as well, which its inner "except Exception as db_error"
\* swallows ("handler fails"); the last commit of generate_content raises and
\* the commit of the handler writes what the session still holds ("commit
\* raises")
ChainOutcomes == {"ok", "raises", "handler fails", "commit raises"}

\* chain(research_topic, generate_structure, generate_content, generate_images)
NextTask(task) ==
    CASE task = "research" -> "structure"
      [] task = "structure" -> "content"
      [] task = "content" -> "image"
      [] task = "image" -> "over"

ChainInit ==
    /\ report_images \in [1..MaxReports -> BOOLEAN]
    /\ report_status = [r \in 1..MaxReports |-> "pending"]
    /\ task_status = [r \in 1..MaxReports |-> <<>>]
    /\ chain_pc = [r \in 1..MaxReports |-> "generate_report"]
    /\ chain_at = [r \in 1..MaxReports |-> "called"]
    /\ chain_result = [r \in 1..MaxReports |-> TRUE]
    /\ SchedIdle /\ RetryIdle /\ TextIdle /\ PathIdle /\ ApiIdle /\ BatchIdle
    /\ OrchIdle /\ ResearchIdle /\ WsIdle

\* a step of a task of the chain of report r: what the database holds after it
\* (the Task rows, the report), the "success" of the dict returned, the task
\* that runs next and how far it has come
ChainStep(r, rows, status, success, next, at) ==
    /\ task_status' = [task_status EXCEPT ![r] = rows]
    /\ report_status' = [report_status EXCEPT ![r] = status]
    /\ chain_result' = [chain_result EXCEPT ![r] = success]
    /\ chain_pc' = [chain_pc EXCEPT ![r] = next]
    /\ chain_at' = [chain_at EXCEPT ![r] = at]
    /\ UNCHANGED <<report_images, sched_vars, retry_vars, text_vars, path_vars, api_vars,
                   batch_vars, orch_vars, research_vars, ws_vars>>

\* the rows of report r with the row of task set to row
RowSet(r, task, row) == [task_status[r] EXCEPT ![task] = row]

\* the handler of research_topic, generate_structure and generate_content: the
\* Task row is marked FAILED, unless the handler fails too; the report is not
\* written
TaskRaises(r, task, outcome) ==
    ChainStep(r, IF outcome = "raises" THEN RowSet(r, task, "failed") ELSE task_status[r],
              report_status[r], FALSE, NextTask(task), "called")

\* the result of the task before says "success": False : the task returns at
\* once, before it reads the database
TaskSkipped(r, task, outcome) ==
    /\ outcome = "ok"
    /\ ChainStep(r, task_status[r], report_status[r], FALSE, NextTask(task), "called")

\* the try block of research_topic, generate_structure and generate_content:
\* the row is committed IN_PROGRESS, the agent runs, the row is committed
\* COMPLETED together with the report, whose status is left as done says
TaskBody(r, task, outcome, done) ==
    IF outcome = "ok"
    THEN IF chain_at[r] = "called"
         THEN ChainStep(r, RowSet(r, task, "in_progress"), report_status[r], TRUE, task,
                        "running")
         ELSE ChainStep(r, RowSet(r, task, "completed"), done, TRUE, NextTask(task),
                        "called")
    ELSE /\ outcome \in {"raises", "handler fails"}
         /\ TaskRaises(r, task, outcome)

\* generate_report(report_id, task_id): the report is committed IN_PROGRESS,
\* the four Task rows are committed, the chain is sent to the workers; when
\* anything of this raises, the handler marks the report FAILED, unless it
\* fails too, and no chain is started
GenerateReportTask(r, outcome) ==
    /\ chain_pc[r] = "generate_report"
    /\ IF outcome = "ok"
       THEN CASE chain_at[r] = "called" ->
                   ChainStep(r, task_status[r], "in_progress", TRUE, "generate_report",
                             "in progress")
              [] chain_at[r] = "in progress" ->
                   ChainStep(r, NewSubtasks, report_status[r], TRUE, "generate_report",
                             "rows")
              [] chain_at[r] = "rows" ->
                   ChainStep(r, task_status[r], report_status[r], TRUE, "research", "called")
       ELSE /\ outcome \in {"raises", "handler fails"}
            /\ ChainStep(r, task_status[r],
                         IF outcome = "raises" THEN "failed" ELSE report_status[r],
                         FALSE, "not started", "called")

\* research_topic(report_id, task_id)
ResearchTopic(r, outcome) ==
    /\ chain_pc[r] = "research"
    /\ TaskBody(r, "research", outcome, report_status[r])

\* generate_structure(research_result, report_id, task_id)
GenerateStructure(r, outcome) ==
    /\ chain_pc[r] = "structure"
    /\ IF ~chain_result[r]
       THEN TaskSkipped(r, "structure", outcome)
       ELSE TaskBody(r, "structure", outcome, report_status[r])

\* generate_content(structure_result, report_id, task_id). When its last
\* commit raises, the session holds the report status assigned just before,
\* and the handler commits on the same session without a rollback.
GenerateContent(r, outcome) ==
    /\ chain_pc[r] = "content"
    /\ IF ~chain_result[r]
       THEN TaskSkipped(r, "content", outcome)
       ELSE IF outcome = "commit raises"
       THEN /\ chain_at[r] = "running"
            /\ ChainStep(r, RowSet(r, "content", "failed"),
                         StatusAfterContent(report_images[r]), FALSE, "image", "called")
       ELSE TaskBody(r, "content", outcome, StatusAfterContent(report_images[r]))

\* generate_images(content_result, report_id, task_id); without images the row
\* is committed COMPLETED and the task skipped, inside the try block. The
\* handler commits twice: the row FAILED, then the report COMPLETED ("the
\* report can still be considered complete").
GenerateImages(r, outcome) ==
    /\ chain_pc[r] = "image"
    /\ IF chain_at[r] = "handler"
       THEN /\ outcome \in {"ok", "handler fails"}
            /\ ChainStep(r, task_status[r],
                         IF outcome = "ok" THEN "completed" ELSE report_status[r],
                         FALSE, "over", "called")
       ELSE IF ~chain_result[r]
       THEN TaskSkipped(r, "image", outcome)
       ELSE IF outcome = "raises"
       THEN ChainStep(r, RowSet(r, "image", "failed"), report_status[r], FALSE, "image",
                      "handler")
       ELSE IF outcome = "handler fails"
       THEN ChainStep(r, task_status[r], report_status[r], FALSE, "over", "called")
       ELSE /\ outcome = "ok"
            /\ IF chain_at[r] = "called" /\ ~report_images[r]
               THEN ChainStep(r, RowSet(r, "image", "completed"), report_status[r], TRUE,
                              "over", "called")
               ELSE IF chain_at[r] = "called"
               THEN ChainStep(r, RowSet(r, "image", "in_progress"), report_status[r], TRUE,
                              "image", "running")
               ELSE ChainStep(r, RowSet(r, "image", "completed"), "completed", TRUE, "over",
                              "called")

ChainNext ==
    \/ \E r \in DOMAIN chain_pc : \E outcome \in ChainOutcomes : GenerateReportTask(r, outcome)
    \/ \E r \in DOMAIN chain_pc : \E outcome \in ChainOutcomes : ResearchTopic(r, outcome)
    \/ \E r \in DOMAIN chain_pc : \E outcome \in ChainOutcomes : GenerateStructure(r, outcome)
    \/ \E r \in DOMAIN chain_pc : \E outcome \in ChainOutcomes : GenerateContent(r, outcome)
    \/ \E r \in DOMAIN chain_pc : \E outcome \in ChainOutcomes : GenerateImages(r, outcome)

----------------------------------------------------------------------------
(* websockets/manager.py: ConnectionManager *)

\* the task ids the clients subscribe to
WsTaskIds == {1, 2}

\* active_connections is a dict: its entries are kept in insertion order, and a
\* deleted key leaves its slot behind until the table is rebuilt, which the few
\* insertions of a run never cause
Entry(key, sockets) == [key |-> key, sockets |-> sockets]
Deleted == Entry(0, <<>>)

\* the slot of key t, 0 when "t not in self.active_connections"
SlotOf(d, t) ==
    IF \E i \in DOMAIN d : d[i].key = t
    THEN CHOOSE i \in DOMAIN d : d[i].key = t
    ELSE 0

\* len(self.active_connections)
DictLen(d) == Cardinality({i \in DOMAIN d : d[i].key # 0})

\* list.remove(websocket): the first occurrence goes
Remove(list, w) ==
    IF \E i \in DOMAIN list : list[i] = w
    THEN LET k == CHOOSE i \in DOMAIN list : list[i] = w /\ \A j \in 1..(i - 1) : list[j] # w
         IN  SubSeq(list, 1, k - 1) \o SubSeq(list, k + 1, Len(list))
    ELSE list

\* connect, after "await websocket.accept()"
ManagerConnect(d, w, t) ==
    IF SlotOf(d, t) = 0
    THEN Append(d, Entry(t, <<w>>))
    ELSE [d EXCEPT ![SlotOf(d, t)].sockets = Append(@, w)]

\* disconnect(websocket, task_id)
ManagerDisconnect(d, w, t) ==
    IF SlotOf(d, t) = 0 THEN d
    ELSE LET i == SlotOf(d, t)
             left == Remove(d[i].sockets, w)
         IN  IF left = <<>> THEN [d EXCEPT ![i] = Deleted]
             ELSE [d EXCEPT ![i].sockets = left]

RECURSIVE CleanUp(_, _, _)
\* for websocket in disconnected_websockets: self.disconnect(websocket, task_id)
CleanUp(d, disconnected_websockets, t) ==
    IF disconnected_websockets = <<>> THEN d
    ELSE CleanUp(ManagerDisconnect(d, Head(disconnected_websockets), t),
                 Tail(disconnected_websockets), t)

\* "for task_id in self.active_connections" asks for its next key, the iterator
\* having reached slot at of a dict that held size keys when the loop began and
\* expecting left more keys: RuntimeError when the size has changed; the end of
\* the loop when no slot is left; RuntimeError when a key is found that was not
\* expected (one key deleted, another added); else the next key and the call
\* of send_update for it, up to its first send_json
BroadcastNextKey(d, at, size, left) ==
    LET later == {i \in DOMAIN d : i > at /\ d[i].key # 0}
        j == CHOOSE i \in later : \A k \in later : i <= k
    IN  IF DictLen(d) # size
        THEN [bc |-> "raised", pos |-> at, left |-> left, su |-> "idle", task |-> 0,
              socket |-> 0]
        ELSE IF later = {}
        THEN [bc |-> "returned", pos |-> at, left |-> left, su |-> "idle", task |-> 0,
              socket |-> 0]
        ELSE IF left = 0
        THEN [bc |-> "raised", pos |-> at, left |-> left, su |-> "idle", task |-> 0,
              socket |-> 0]
        ELSE [bc |-> "iterating", pos |-> j, left |-> left - 1, su |-> "sending",
              task |-> d[j].key, socket |-> d[j].sockets[1]]

WsInit ==
    /\ active_connections = <<>>
    /\ ws_state = [w \in 1..MaxSockets |-> "new"]
    /\ ws_task = [w \in 1..MaxSockets |-> 0]
    /\ ws_failed = {}
    /\ ws_calls = 0
    /\ su_pc = "idle"
    /\ su_caller = "none"
    /\ su_task = 0
    /\ su_socket = 0
    /\ su_index = 0
    /\ su_detached = FALSE
    /\ su_disconnected = <<>>
    /\ bc_pc = "idle"
    /\ bc_pos = 0
    /\ bc_size = 0
    /\ bc_left = 0
    /\ SchedIdle /\ RetryIdle /\ TextIdle /\ PathIdle /\ ApiIdle /\ BatchIdle
    /\ OrchIdle /\ ResearchIdle /\ ChainIdle

\* connect(websocket, task_id): accepted, then registered
Connect(w, t) ==
    /\ ws_state[w] = "new"
    /\ active_connections' = ManagerConnect(active_connections, w, t)
    /\ ws_state' = [ws_state EXCEPT ![w] = "open"]
    /\ ws_task' = [ws_task EXCEPT ![w] = t]
    /\ UNCHANGED <<ws_failed, ws_calls, su_pc, su_caller, su_task, su_socket, su_index,
                   su_detached, su_disconnected, bc_pc, bc_pos, bc_size, bc_left, sched_vars,
                   retry_vars, text_vars, path_vars, api_vars, batch_vars, orch_vars,
                   research_vars, chain_vars>>

\* the client of w is gone: its endpoint calls disconnect(websocket, task_id).
\* When this deletes the key whose list a send_update is iterating, that list
\* is empty and no longer the one of the dict.
Disconnect(w) ==
    /\ ws_state[w] = "open"
    /\ active_connections' = ManagerDisconnect(active_connections, w, ws_task[w])
    /\ ws_state' = [ws_state EXCEPT ![w] = "closed"]
    /\ su_detached' =
          (su_detached \/ (/\ su_pc = "sending"
                           /\ su_task = ws_task[w]
                           /\ SlotOf(active_connections, su_task) # 0
                           /\ SlotOf(active_connections', su_task) = 0))
    /\ UNCHANGED <<ws_task, ws_failed, ws_calls, su_pc, su_caller, su_task, su_socket,
                   su_index, su_disconnected, bc_pc, bc_pos, bc_size, bc_left, sched_vars,
                   retry_vars, text_vars, path_vars, api_vars, batch_vars, orch_vars,
                   research_vars, chain_vars>>

\* send_update(task_id, data) is called: nothing to do for an unknown task_id,
\* else the first send_json is awaited
SendUpdate(t) ==
    /\ su_pc = "idle"
    /\ bc_pc # "iterating"
    /\ ws_calls < MaxSendCalls
    /\ ws_calls' = ws_calls + 1
    /\ IF SlotOf(active_connections, t) = 0
       THEN UNCHANGED <<su_pc, su_caller, su_task, su_socket, su_index, su_detached,
                        su_disconnected>>
       ELSE /\ su_pc' = "sending"
            /\ su_caller' = "direct"
            /\ su_task' = t
            /\ su_socket' = active_connections[SlotOf(active_connections, t)].sockets[1]
            /\ su_index' = 1
            /\ su_detached' = FALSE
            /\ su_disconnected' = <<>>
    /\ UNCHANGED <<active_connections, ws_state, ws_task, ws_failed, bc_pc, bc_pos, bc_size,
                   bc_left,
                   sched_vars, retry_vars, text_vars, path_vars, api_vars, batch_vars,
                   orch_vars, research_vars, chain_vars>>

\* broadcast(message) is called: the iteration over the dict begins
Broadcast ==
    /\ su_pc = "idle"
    /\ bc_pc # "iterating"
    /\ ws_calls < MaxSendCalls
    /\ ws_calls' = ws_calls + 1
    /\ LET n == BroadcastNextKey(active_connections, 0, DictLen(active_connections),
                                 DictLen(active_connections))
       IN  /\ bc_pc' = n.bc
           /\ bc_pos' = n.pos
           /\ bc_left' = n.left
           /\ bc_size' = DictLen(active_connections)
           /\ su_pc' = n.su
           /\ su_caller' = "broadcast"
           /\ su_task' = n.task
           /\ su_socket' = n.socket
           /\ su_index' = IF n.su = "sending" THEN 1 ELSE 0
           /\ su_detached' = FALSE
           /\ su_disconnected' = <<>>
    /\ UNCHANGED <<active_connections, ws_state, ws_task, ws_failed, sched_vars, retry_vars,
                   text_vars, path_vars, api_vars, batch_vars, orch_vars, research_vars,
                   chain_vars>>

\* the send_json awaited by send_update ends, raising or not: a websocket whose
\* send raised is noted; the list iterator yields its next element, or the loop
\* ends, the noted websockets are disconnected and send_update returns, to its
\* caller or into the loop of broadcast
SendJsonEnds(ok) ==
    /\ su_pc = "sending"
    /\ LET disconnected_websockets ==
               IF ok THEN su_disconnected ELSE Append(su_disconnected, su_socket)
           list == IF su_detached THEN <<>>
                   ELSE active_connections[SlotOf(active_connections, su_task)].sockets
           cleaned == CleanUp(active_connections, disconnected_websockets, su_task)
           n == BroadcastNextKey(cleaned, bc_pos, bc_size, bc_left)
       IN  /\ ws_failed' = IF ok THEN ws_failed ELSE ws_failed \cup {su_socket}
           /\ IF su_index < Len(list)
              THEN /\ su_socket' = list[su_index + 1]
                   /\ su_index' = su_index + 1
                   /\ su_disconnected' = disconnected_websockets
                   /\ UNCHANGED <<active_connections, su_pc, su_caller, su_task,
                                  su_detached, bc_pc, bc_pos, bc_left>>
              ELSE /\ active_connections' = cleaned
                   /\ su_disconnected' = <<>>
                   /\ su_detached' = FALSE
                   /\ IF su_caller = "direct"
                      THEN /\ su_pc' = "idle"
                           /\ su_caller' = "none"
                           /\ su_task' = 0
                           /\ su_socket' = 0
                           /\ su_index' = 0
                           /\ UNCHANGED <<bc_pc, bc_pos, bc_left>>
                      ELSE /\ bc_pc' = n.bc
                           /\ bc_pos' = n.pos
                           /\ bc_left' = n.left
                           /\ su_pc' = n.su
                           /\ su_caller' = IF n.su = "sending" THEN "broadcast" ELSE "none"
                           /\ su_task' = n.task
                           /\ su_socket' = n.socket
                           /\ su_index' = IF n.su = "sending" THEN 1 ELSE 0
    /\ UNCHANGED <<ws_state, ws_task, ws_calls, bc_size, sched_vars, retry_vars, text_vars,
                   path_vars, api_vars, batch_vars, orch_vars, research_vars, chain_vars>>

WsNext ==
    \/ \E w \in DOMAIN ws_state : \E t \in WsTaskIds : Connect(w, t)
    \/ \E w \in DOMAIN ws_state : Disconnect(w)
    \/ \E t \in WsTaskIds : SendUpdate(t)
    \/ Broadcast
    \/ \E ok \in BOOLEAN : SendJsonEnds(ok)

----------------------------------------------------------------------------
(* Specifications *)

Next == SchedNext

Spec == Init /\ [][Next]_vars

WideSpec == WideInit /\ [][Next]_vars

\* The event loop runs every task that is ready and every backend call ends.
FairSpec == Init /\ [][Next]_vars /\ WF_vars(Next)

RetryStart == RetryInit /\ SchedIdle /\ TextIdle /\ PathIdle /\ ApiIdle /\ BatchIdle /\ AgentsIdle

RetrySpec == RetryStart /\ [][RetryNext]_vars

FormatSpec == FormatInit /\ [][FormatNext]_vars

ConvertSpec == ConvertInit /\ [][ConvertNext]_vars

PathSpec == PathInit /\ [][PathNext]_vars

ApiSpec == ApiInit /\ [][ApiNext]_vars

BatchSpec == BatchInit /\ [][BatchNext]_vars

OrchSpec == OrchInit /\ [][OrchNext]_vars

ResearchSpec == ResearchInit /\ [][ResearchNext]_vars

ChainSpec == ChainInit /\ [][ChainNext]_vars

\* The workers run every task that was sent to them.
FairChainSpec == ChainSpec /\ WF_vars(ChainNext)

WsSpec == WsInit /\ [][WsNext]_vars

----------------------------------------------------------------------------
(* Vocabulary of the properties *)

Range(f) == {f[i] : i \in DOMAIN f}

\* s is suspended in an image call inside "async with doc_lock"
InsideLock(s) == pc[s] = "img"

\* s is being processed: it holds a permit of its sibling group
Processing(s) == pc[s] \in {"gen1", "gen2", "wantlock", "img", "children"}

\* s waits for an answer of the content-generation backend
Generating(s) == pc[s] \in {"gen1", "gen2"}

\* the fan-out cap of the sibling group below g
Cap(g) == IF g = 0 THEN max_concurrent_tasks ELSE NestedConcurrency

\* the heading of s was added to the document
Appended(s) == Block(s, "heading") \in Range(doc)

\* the append of s is complete and saved
Saved(s) == Block(s, "heading") \in Range(file) /\ pc[s] \in {"children", "done", "failed"}

\* the content blocks of s in the document
OwnBlocks(s) == {i \in DOMAIN doc : doc[i].sec = s /\ doc[i].kind # "heading"}

\* external calls in flight: content generation and image generation
InFlight == {s \in Nodes : pc[s] \in {"gen1", "gen2", "img"}}

\* nothing is left to run
Quiescent ==
    /\ exec_pc \in {"returned", "raised"}
    /\ \A s \in Nodes : pc[s] \in {"new", "done", "failed"}

\* execute returned output_path and every section was processed
Completed == exec_pc = "returned" /\ \A s \in Nodes : pc[s] = "done"

----------------------------------------------------------------------------
(* C1 *)

AtMostOneInside ==
    \A s, t \in Nodes :
        /\ (InsideLock(s) /\ InsideLock(t)) => s = t
        /\ InsideLock(s) => doc_lock = s

HolderOnly ==
    doc_lock # 0 =>
        /\ \A i \in (Len(doc) + 1)..Len(doc') : doc'[i].sec = doc_lock
        /\ file' # file => (doc_lock' = 0 /\ pc'[doc_lock] # "img")

\* C1: at most one section task is inside the document critical section; while a
\* task holds the lock, also suspended in an image call, every block added to the
\* document is its own and the only save is the one that ends its critical section.
C1_MutualExclusion == []AtMostOneInside /\ [][HolderOnly]_vars

\* the holder is suspended in an image call while another task waits for the lock
C1_Witness == \E s, t \in Nodes : InsideLock(s) /\ pc[t] = "wantlock"

----------------------------------------------------------------------------
(* C2 *)

\* C2: a subsection task exists only once its parent's append-and-save is complete,
\* and in the document every block of a section comes after the heading and the
\* content of each of its ancestors.
C2_ParentBeforeChildren ==
    /\ \A c \in Nodes : (parent[c] # 0 /\ pc[c] # "new") => Saved(parent[c])
    /\ \A j \in DOMAIN doc : \A a \in Nodes :
         IsAncestor(a, doc[j].sec) =>
            /\ \E i \in 1..(j - 1) : doc[i] = Block(a, "heading")
            /\ \A i \in DOMAIN doc : doc[i].sec = a => i < j

\* a section of level 3 is in the document, a block of another subtree between it
\* and its grandparent
C2_Witness ==
    \E i, j, k \in DOMAIN doc :
        /\ i < k /\ k < j
        /\ doc[i].sec # 0 /\ doc[j].sec # 0
        /\ IsAncestor(doc[i].sec, doc[j].sec)
        /\ Level(doc[j].sec) = 3 /\ Level(doc[i].sec) = 1
        /\ doc[k].sec # 0 /\ doc[k].sec # doc[i].sec /\ ~IsAncestor(doc[i].sec, doc[k].sec)

----------------------------------------------------------------------------
(* C3 *)

\* C3: among the sections of one sibling group at most cap are being processed
\* (so at most cap are generating), cap being max_concurrent_tasks for the
\* top-level sections and 3 below.
C3_ConcurrencyBound ==
    \A g \in Groups :
        /\ Cardinality({s \in Children(g) : Processing(s)}) <= Cap(g)
        /\ Cardinality({s \in Children(g) : Generating(s)}) <= Cap(g)

\* a group of more than cap siblings with cap of them generating at once
C3_Witness ==
    \E g \in Groups :
        /\ Cardinality(Children(g)) > Cap(g)
        /\ Cardinality({s \in Children(g) : Generating(s)}) = Cap(g)
        /\ \E s \in Children(g) : pc[s] = "queued"

----------------------------------------------------------------------------
(* C4 *)

\* C4: when content generation raised for exactly one section, execute does not
\* raise, and once the run is over it has returned and every section outside the
\* failed section's subtree is in the document.
C4_FailureIsolated ==
    \A f \in Nodes :
        (cause[f] = "gen" /\ faults = 1) =>
            /\ exec_pc # "raised"
            /\ Quiescent =>
                 /\ exec_pc = "returned"
                 /\ \A s \in Nodes \ {f} : ~IsAncestor(f, s) => Appended(s)

----------------------------------------------------------------------------
(* C5 *)

\* the sections have been started (the initial save of the title succeeded)
Running == \E s \in Nodes : pc[s] # "new"

\* C5: whenever no task holds the document lock, the file on disk holds exactly
\* the blocks appended to the document so far: every section appended is
\* persisted.
C5_FileIsDocument == (Running /\ doc_lock = 0) => file = doc

----------------------------------------------------------------------------
(* C6 *)

\* C6: if every content-generation, image-generation and save call returns,
\* execute eventually returns with every section processed.
C6_Terminates == <>(faults > 0 \/ Completed)

\* a parent keeps its permit and waits for its children while a child waits for
\* the lock held by a task suspended in an image call
C6_Witness ==
    \E p, c, h \in Nodes :
        /\ pc[p] = "children" /\ parent[c] = p /\ pc[c] = "wantlock"
        /\ InsideLock(h) /\ faults = 0

----------------------------------------------------------------------------
(* C7 *)

AllRaised(as) == \A i \in DOMAIN as : as[i].kind = "error"

\* C7: with max_retries = n >= 1 the wrapped operation is invoked at most n times;
\* the wrapper returns the first success and its result; after n failures it
\* raises the error of the last attempt and returns no value.
C7_RetryContract ==
    max_retries >= 1 =>
        /\ Len(attempts) <= max_retries
        /\ \A i \in 1..(Len(attempts) - 1) : attempts[i].kind = "error"
        /\ r_pc = "returned" =>
             /\ attempts # <<>>
             /\ r_out = attempts[Len(attempts)]
             /\ r_out.kind = "value"
        /\ r_pc = "raised" =>
             /\ Len(attempts) = max_retries
             /\ AllRaised(attempts)
             /\ r_out = attempts[Len(attempts)]
        /\ (r_pc \in {"loop", "calling", "sleeping"} /\ attempts # <<>>) =>
             (AllRaised(attempts) /\ Len(attempts) < max_retries)

\* the research configuration: two failures, then exhaustion at the third
C7_Witness ==
    /\ max_retries = ResearchMaxRetries
    /\ r_pc = "raised"
    /\ Len(attempts) = ResearchMaxRetries
    /\ attempts[1].val # attempts[Len(attempts)].val

----------------------------------------------------------------------------
(* C8 *)

\* C8: a content-generation failure reaches the section scheduler only after the
\* backend call was attempted the fixed number of times.
C8_GenerationRetried ==
    \A s \in Nodes : cause[s] = "gen" => llm_calls[s] >= DefaultMaxRetries

----------------------------------------------------------------------------
(* C9 *)

\* C9: the external calls in flight never exceed the process-wide gate.
C9_GateBoundsCalls == Cardinality(InFlight) <= ApiSemaphoreLimit

----------------------------------------------------------------------------
(* C10 *)

\* C10: content generation is requested for a section exactly when its content is
\* empty when its processing starts, and at most once; a populated section is
\* never sent to the generator and is rendered unchanged; section.content is
\* written at most once.
C10_GenerateOnce ==
    \A s \in Nodes :
        /\ gen_requests[s] <= 1
        /\ content_writes[s] <= 1
        /\ pc[s] \notin {"new", "queued"} =>
             (gen_requests[s] = 1 <=> preset[s] = EmptyContent)
        /\ preset[s] # EmptyContent =>
             /\ gen_requests[s] = 0 /\ llm_calls[s] = 0 /\ content_writes[s] = 0
             /\ content[s] = preset[s]
             /\ pc[s] \in {"children", "done"} => Cardinality(OwnBlocks(s)) = Len(preset[s])

\* a populated section was rendered without generation, another one was generated
C10_Witness ==
    \E s, t \in Nodes :
        /\ preset[s] # EmptyContent /\ pc[s] \in {"children", "done"}
        /\ content_writes[t] = 1 /\ Appended(t)

----------------------------------------------------------------------------
(* C11 *)

\* the corrective prompt is due: images are wanted and the first answer has none
RePromptDue == include_images /\ ~(\E i \in DOMAIN llm[1] : llm[1][i] = "img")

\* C11: generating one section's content makes exactly one backend call when
\* images are disabled or the first answer holds an image reference, exactly two
\* otherwise, and never a third, whatever the second answer holds.
C11_CallCount ==
    \A s \in Nodes :
        /\ llm_calls[s] <= 2
        /\ pc[s] = "gen1" => llm_calls[s] = 1
        /\ pc[s] = "gen2" => (llm_calls[s] = 2 /\ RePromptDue)
        /\ content_writes[s] = 1 => llm_calls[s] = (IF RePromptDue THEN 2 ELSE 1)

\* a section was generated with two calls, the second answer without image too
C11_Witness ==
    \E s \in Nodes :
        /\ content_writes[s] = 1 /\ llm_calls[s] = 2
        /\ include_images /\ \A i \in DOMAIN content[s] : content[s][i] # "img"
        /\ content[s] = llm[2]
        /\ pc[s] = "done"

----------------------------------------------------------------------------
(* C13 - C16: the inline formatter *)

\* a text without markup characters
NoMarkup(t) == \A i \in DOMAIN t : t[i] \in {"a", "b", "c", " ", "\n"}

\* a non-empty text without markup characters
IsPlain(t) == t # <<>> /\ NoMarkup(t)

\* t is open x inner y inner z open, x of length p and y of length b, x, y, z plain
Nested(t, open, inner, p, b) ==
    LET o == Len(open)
        n == Len(inner)
    IN  /\ Len(t) > 2 * o + 2 * n + p + b
        /\ MatchAt(t, 1, open)
        /\ IsPlain(SubSeq(t, o + 1, o + p))
        /\ MatchAt(t, o + p + 1, inner)
        /\ IsPlain(SubSeq(t, o + p + n + 1, o + p + n + b))
        /\ MatchAt(t, o + p + n + b + 1, inner)
        /\ IsPlain(SubSeq(t, o + p + 2 * n + b + 1, Len(t) - o))
        /\ MatchAt(t, Len(t) - o + 1, open)

\* the runs of a nested span in text order: outer x, both y, outer z
NestedInOrder(t, open, inner, p, b, outer) ==
    LET o == Len(open)
        n == Len(inner)
    IN  <<Run(outer, SubSeq(t, o + 1, o + p)),
          Run("bolditalic", SubSeq(t, o + p + n + 1, o + p + n + b)),
          Run(outer, SubSeq(t, o + p + 2 * n + b + 1, Len(t) - o))>>

\* C13: for a bold span that holds one italic span, **x *y* z**, the runs come in
\* text order: bold x, bold-italic y, bold z.
C13_BoldNestedInOrder ==
    f_pc = "done" =>
        \A p, b \in 1..Len(f_text) :
            Nested(f_text, <<"*", "*">>, <<"*">>, p, b) =>
                f_runs = NestedInOrder(f_text, <<"*", "*">>, <<"*">>, p, b, "bold")

\* C14: an italic span that holds one bold span, *x **y** z*, is formatted like
\* the bold span that holds italic: italic x, bold-italic y, italic z, and no
\* asterisk is left in a run.
C14_ItalicNestedSymmetric ==
    f_pc = "done" =>
        \A p, b \in 1..Len(f_text) :
            Nested(f_text, <<"*">>, <<"*", "*">>, p, b) =>
                /\ f_runs = NestedInOrder(f_text, <<"*">>, <<"*", "*">>, p, b, "italic")
                /\ \A i \in DOMAIN f_runs : \A x \in DOMAIN f_runs[i].text :
                       f_runs[i].text[x] # "*"

RECURSIVE LeftmostFormat(_)
\* the formatter that takes at each step the span starting leftmost in the
\* remaining text, the order link, bold, italic, code deciding between spans that
\* start at the same place
LeftmostFormat(t) ==
    IF t = <<>> THEN <<>>
    ELSE LET ms == <<LinkSearch(t), BoldSearch(t), ItalicSearch(t), CodeSearch(t)>>
             names == <<"link", "bold", "italic", "code">>
             found == {i \in 1..4 : ms[i].found}
         IN  IF found = {} THEN <<Run("plain", t)>>
             ELSE LET first == Min({ms[i].from : i \in found})
                      i == Min({j \in found : ms[j].from = first})
                  IN  (IF first > 1 THEN <<Run("plain", BeforeMatch(t, ms[i]))>>
                       ELSE <<>>)
                      \o SpanRuns(names[i], t, ms[i])
                      \o LeftmostFormat(AfterMatch(t, ms[i]))

\* C15: the formatter consumes at each step the span that starts leftmost in the
\* remaining text, the precedence link, bold, italic, code deciding only between
\* spans that start at the same position.
C15_LeftmostSpanFirst == f_pc = "done" => f_runs = LeftmostFormat(f_text)

\* t is P ** B ** Q, P of length p and B of length b, P, B, Q plain
PlainBoldPlain(t, p, b) ==
    /\ Len(t) > p + b + 4
    /\ IsPlain(SubSeq(t, 1, p))
    /\ MatchAt(t, p + 1, <<"*", "*">>)
    /\ IsPlain(SubSeq(t, p + 3, p + 2 + b))
    /\ MatchAt(t, p + 3 + b, <<"*", "*">>)
    /\ IsPlain(SubSeq(t, p + 5 + b, Len(t)))

\* C16: for P**B**Q with P, B, Q non-empty and without markup the runs are plain
\* P, bold B, plain Q; a text without markup gives one plain run.
C16_PlainBoldPlain ==
    f_pc = "done" =>
        /\ \A p, b \in 1..Len(f_text) :
              PlainBoldPlain(f_text, p, b) =>
                  f_runs = <<Run("plain", SubSeq(f_text, 1, p)),
                             Run("bold", SubSeq(f_text, p + 3, p + 2 + b)),
                             Run("plain", SubSeq(f_text, p + 5 + b, Len(f_text)))>>
        /\ NoMarkup(f_text) => f_runs = <<Run("plain", f_text)>>

\* a text P**B**Q was formatted
C16_Witness ==
    /\ f_pc = "done"
    /\ \E p, b \in 1..Len(f_text) : PlainBoldPlain(f_text, p, b)
    /\ Len(f_runs) = 3

----------------------------------------------------------------------------
(* C12 *)

\* C12: image generation never raises to the renderer: every call returns a path
\* or None; a description shorter than 10 characters gives None without a call of
\* the image backend, and a backend failure or exception gives None.
C12_ImageNeverRaises ==
    /\ Len(image_results) + (IF cv_pc = "backend" THEN 1 ELSE 0) = Len(image_requests)
    /\ \A i \in DOMAIN image_results :
          LET r == image_results[i]
          IN  /\ r.description = image_requests[i]
              /\ r.result \in {"path", "None"}
              /\ Len(r.description) < MinDescriptionLen =>
                     (r.backend = "none" /\ r.result = "None")
              /\ r.backend \in {"failed", "raised"} => r.result = "None"
    /\ \A i \in DOMAIN backend_calls : Len(backend_calls[i]) >= MinDescriptionLen
    /\ cv_pc = "raised" => (docx # <<>> /\ docx[Len(docx)].kind = "table")

\* one image was rejected for its short description, the image agent raised
\* for another before any backend call, and the renderer went on to the end
C12_Witness ==
    /\ cv_pc = "done"
    /\ \E i, j \in DOMAIN image_results :
          /\ image_results[i].backend = "none"
          /\ image_results[j].backend = "raised"
    /\ backend_calls = <<>>
    /\ Len(SelectSeq(docx, LAMBDA b : b.kind = "imgfail")) = 2

----------------------------------------------------------------------------
(* C17 - C20: the block rules *)

\* the text is one chunk: trimmed, not empty, without blank line
SingleChunk(t) == t # <<>> /\ Strip(t) = t /\ ~Contains(t, <<"\n", "\n">>)

\* the number of # characters t begins with
LeadingHashes(t) ==
    LET others == {j \in 1..Len(t) : t[j] # "#"}
    IN  IF others = {} THEN Len(t) ELSE Min(others) - 1

\* t begins with 1 to 6 # characters followed by a space
BeginsAsHeading(t) ==
    /\ LeadingHashes(t) \in 1..6
    /\ Len(t) > LeadingHashes(t)
    /\ t[LeadingHashes(t) + 1] = " "

\* C17: a chunk that begins with n # characters, 1 <= n <= 6, followed by a space
\* is rendered as one heading block of level n, and no other chunk is rendered as
\* a heading block.
C17_HeadingRule ==
    (cv_pc = "done" /\ SingleChunk(markdown_text)) =>
        /\ BeginsAsHeading(markdown_text) =>
              /\ Len(docx) = 1
              /\ docx[1].kind = "heading"
              /\ docx[1].level = LeadingHashes(markdown_text)
        /\ (\E i \in DOMAIN docx : docx[i].kind = "heading") =>
              BeginsAsHeading(markdown_text)

\* the lines of t
Lines(t) == Split(t, <<"\n">>)

\* a line made of digits, a dot, a space and a plain text
IsNumberedItem(line) ==
    /\ NumberMarker(line, 1) > 0
    /\ line[NumberMarker(line, 1)] = " "
    /\ IsPlain(SubSeq(line, NumberMarker(line, 1) + 1, Len(line)))

\* a chunk made of numbered items only
NumberedChunk(t) ==
    SingleChunk(t) /\ \A i \in DOMAIN Lines(t) : IsNumberedItem(Lines(t)[i])

\* the digits of the marker of a numbered item
MarkerOf(line) == SubSeq(line, 1, NumberMarker(line, 1) - 2)

\* the items of a numbered chunk are numbered-list blocks in their original order
ItemsInOrder(t) ==
    /\ Len(docx) = Len(Lines(t))
    /\ \A i \in DOMAIN docx :
          /\ docx[i].kind = "number"
          /\ docx[i].text = SubSeq(Lines(t)[i], NumberMarker(Lines(t)[i], 1) + 1,
                                   Len(Lines(t)[i]))

\* the decimal numeral of k, for the numbers of the items of a chunk
Numeral(k) == <<<<"1">>, <<"2">>, <<"3">>, <<"4">>>>[k]

\* C18 as stated: the items of a numbered chunk are emitted in order and their
\* markers are rewritten to 1., 2., 3., ...
C18_RenumberedSequentially ==
    (cv_pc = "done" /\ NumberedChunk(markdown_text)) =>
        /\ ItemsInOrder(markdown_text)
        /\ \A i \in DOMAIN Lines(markdown_text) :
              MarkerOf(Lines(NormalizeNumbers(markdown_text))[i]) = Numeral(i)

\* C18 amended: the items of a numbered chunk are emitted as numbered-list blocks
\* in their original order, whatever the source digits: every marker is rewritten
\* to 1. and then removed, and the blocks carry no number.
C18_MarkersDiscarded ==
    (cv_pc = "done" /\ NumberedChunk(markdown_text)) =>
        /\ ItemsInOrder(markdown_text)
        /\ Len(Lines(NormalizeNumbers(markdown_text))) = Len(Lines(markdown_text))
        /\ \A i \in DOMAIN Lines(markdown_text) :
              MarkerOf(Lines(NormalizeNumbers(markdown_text))[i]) = <<"1">>

\* a chunk of three items numbered 41., 42., 3. was rendered
C18_Witness ==
    /\ cv_pc = "done"
    /\ NumberedChunk(markdown_text)
    /\ Len(docx) = 3
    /\ MarkerOf(Lines(markdown_text)[1]) = <<"4", "1">>
    /\ MarkerOf(Lines(markdown_text)[2]) = <<"4", "2">>

\* a line of a table chunk that holds ---
IsSeparator(line) == Contains(line, <<"-", "-", "-">>)

\* every line holds |, and one line is a separator
TableChunk(t) ==
    /\ SingleChunk(t)
    /\ \A i \in DOMAIN Lines(t) : Contains(Lines(t)[i], <<"|">>)
    /\ Len(SelectSeq(Lines(t), IsSeparator)) = 1

\* the lines of a table chunk that are not separators
DataLines(t) == SelectSeq(Lines(t), LAMBDA l : ~IsSeparator(l))

\* C19: a chunk whose lines all hold | and that has one --- separator line yields
\* one table block whose rows are the other lines in order and whose column count
\* is the number of cells of the first of them.
C19_TableRule ==
    (cv_pc \in {"done", "raised"} /\ TableChunk(markdown_text)
     /\ DataLines(markdown_text) # <<>>) =>
        LET rows == DataLines(markdown_text)
            cols == Len(RowCells(rows[1]))
        IN  /\ cv_pc = "done"
            /\ Len(docx) = 2
            /\ docx[1].kind = "table"
            /\ docx[1].level = cols
            /\ Len(docx[1].extra) = Len(rows) * cols
            /\ \A i \in DOMAIN rows : \A j \in 1..cols :
                  docx[1].extra[(i - 1) * cols + j] =
                      IF j <= Len(RowCells(rows[i])) THEN <<RowCells(rows[i])[j]>>
                      ELSE <<>>
            /\ \A i \in DOMAIN rows : Len(RowCells(rows[i])) <= cols

RECURSIVE ImageRefs(_)
\* re.findall(r"!\[(.+?)\]\((.+?)\)", t): the descriptions of the image references
ImageRefs(t) ==
    LET m == ImageSearch(t)
    IN  IF m.found THEN <<Group2(t, m)>> \o ImageRefs(AfterMatch(t, m)) ELSE <<>>

\* C20: when images are enabled every image reference of the content causes
\* exactly one image generation call, made while the content is rendered, and no
\* call is made for anything else.
C20_OneCallPerImageRef ==
    cv_pc = "done" =>
        image_requests = (IF images_dir THEN ImageRefs(markdown_text) ELSE <<>>)

----------------------------------------------------------------------------
(* C21, C28 - C30: chunks, separators, the rest of an image chunk, quotes *)

\* C21: every chunk that is not empty after trimming adds at least one block to
\* the document, as soon as the loop has dealt with it; an empty chunk adds none.
C21_NoChunkDropped ==
    [][(cv_pc = "loop" /\ paragraphs # <<>> /\ cv_pc' # "backend") =>
          IF Strip(Head(paragraphs)) = <<>>
          THEN docx' = docx
          ELSE Len(docx') > Len(docx)]_vars

\* a line made of -, | and whitespace only
OnlyRuleChars(line) == \A i \in DOMAIN line : line[i] \in {"-", "|", " "}

\* a chunk all of whose lines hold |, and that neither the heading rule nor the
\* list rule can take
AllLinesPiped(t) ==
    /\ SingleChunk(t)
    /\ t[1] \notin {"#", "-", "*"} /\ ~IsDigit(t[1])
    /\ \A i \in DOMAIN Lines(t) : Contains(Lines(t)[i], <<"|">>)

\* C28: in a table chunk the lines made of -, | and whitespace only are dropped,
\* and they alone: the table has one row for every other line.
C28_SeparatorRule ==
    (cv_pc \in {"done", "raised"} /\ AllLinesPiped(markdown_text)) =>
        LET rows == SelectSeq(Lines(markdown_text), LAMBDA l : ~OnlyRuleChars(l))
        IN  rows # <<>> =>
              /\ docx # <<>>
              /\ docx[1].kind = "table"
              /\ Len(docx[1].extra) = Len(rows) * docx[1].level

\* the chunk is an image chunk: with images enabled the image rule takes it
ImageChunk(t) == SingleChunk(t) /\ RenderChunk(t, TRUE).stop = "await"

\* what is left of an image chunk when its image reference is removed
LeftOver(t) ==
    LET m == ImageSearch(t) IN Replace(t, SubSeq(t, m.from, m.to), <<>>)

\* C29: the text left in a chunk after its image reference is rendered right
\* after the image block, as the full rule order renders a chunk of that text.
C29_RestIsFreshChunk ==
    (/\ cv_pc = "done"
     /\ images_dir
     /\ ImageChunk(markdown_text)
     /\ Strip(LeftOver(markdown_text)) # <<>>
     /\ RenderChunk(LeftOver(markdown_text), TRUE).stop = "next") =>
        \E k \in AddedByImage :
            /\ k <= Len(docx)
            /\ SubSeq(docx, k + 1, Len(docx)) = RenderChunk(LeftOver(markdown_text), TRUE).blocks

\* a chunk every line of which begins with "> ", without | and without image
QuoteChunk(t) ==
    /\ SingleChunk(t)
    /\ \A i \in DOMAIN Lines(t) : StartsWith(Lines(t)[i], <<">", " ">>)
    /\ ~Contains(t, <<"|">>)
    /\ ~ImageSearch(t).found

\* C30: a quote chunk is one quote block whose text is the chunk without the
\* leading "> " of each line, every other "> " kept.
C30_OnlyLeadingPrefixRemoved ==
    (cv_pc = "done" /\ QuoteChunk(markdown_text)) =>
        LET ls == Lines(markdown_text)
        IN  docx = <<Blk("quote", 0,
                         Join([i \in DOMAIN ls |-> SubSeq(ls[i], 3, Len(ls[i]))], <<"\n">>),
                         <<>>)>>

----------------------------------------------------------------------------
(* C26: the waits of retry_with_backoff *)

RECURSIVE Pow2(_)
Pow2(k) == IF k = 0 THEN 1 ELSE 2 * Pow2(k - 1)

\* C26: the wait before the k-th retry is initial_backoff * 2^(k-1); one wait
\* follows every failed attempt that is not the last one allowed, so one wait
\* separates two consecutive attempts, and no wait follows a success or the final
\* failed attempt.
C26_BackoffSchedule ==
    /\ \A k \in DOMAIN sleeps : sleeps[k] = initial_backoff * Pow2(k - 1)
    /\ r_pc \in {"loop", "calling", "sleeping"} => Len(sleeps) = Len(attempts)
    /\ (r_pc \in {"returned", "raised"} /\ attempts # <<>>) =>
          Len(sleeps) = Len(attempts) - 1
    /\ attempts = <<>> => sleeps = <<>>

\* research calls: 2 s before the first retry, 4 s before the second, and the
\* third failure is raised without a wait
C26_Witness ==
    /\ max_retries = ResearchMaxRetries
    /\ initial_backoff = ResearchInitialBackoff
    /\ r_pc = "raised"
    /\ sleeps = <<2, 4>>

----------------------------------------------------------------------------
(* C27: no order between sibling subtrees *)

\* C27: nothing puts the blocks of sibling subtrees in outline order. The document
\* only grows at its end, by blocks of one section at a time, so its order is the
\* order in which the section tasks reached the critical section; the witness is a
\* finished run in which a later sibling comes first and the descendants of the
\* earlier sibling come after it.
C27_AppendOrderOnly ==
    [][/\ Len(doc') >= Len(doc)
       /\ SubSeq(doc', 1, Len(doc)) = doc
       /\ \A i, j \in (Len(doc) + 1)..Len(doc') : doc'[i].sec = doc'[j].sec]_vars

\* A = 1 and B = 4 are siblings, A before B in the outline; in the final document
\* the blocks of B precede those of A, and those of the descendants 2 and 3 of A
\* come after those of B
C27_Witness ==
    /\ Completed
    /\ parent = Chain3
    /\ \A i, j \in DOMAIN doc :
          (doc[i].sec = 4 /\ doc[j].sec \in {1, 2, 3}) => i < j
    /\ \E i, j \in DOMAIN doc : doc[i].sec = 4 /\ doc[j].sec = 3

----------------------------------------------------------------------------
(* C23: a failed save is raised by execute *)

\* doc.save raises in the checkpoint of a section task in this step
CheckpointSaveFails == \E s \in Nodes : cause'[s] = "save" /\ cause[s] # "save"

\* C23: the error of a save that fails in a checkpoint is not swallowed: execute
\* is still waiting for its section tasks when the save fails, so that the error
\* travels up the gathers to execute, which raises it to the orchestrator.
C23_SaveErrorRaised ==
    [][CheckpointSaveFails => exec_pc = "gather"]_vars

----------------------------------------------------------------------------
(* C22: the output path *)

\* a letter or a digit
IsAlnum(c) == c \in {"a", "Z", "7"}

\* the file-name stem of output_path: between "output/" and ".docx"
Stem == SubSeq(output_path, 8, Len(output_path) - 5)

\* C22: the stem of the output path is the title with every character that is
\* not a letter or a digit replaced by _, so that it holds letters, digits and _
\* only.
C22_StemSanitised ==
    path_pc = "done" =>
        /\ output_path = OutputPath(title)
        /\ Len(Stem) = Len(title)
        /\ \A i \in DOMAIN title :
              Stem[i] = (IF IsAlnum(title[i]) THEN title[i] ELSE "_")

----------------------------------------------------------------------------
(* C24: POST /generate-report *)

\* C24: every valid POST /generate-report is answered 200 with status accepted and
\* the task_id of the generation it started, whatever was served before, and a
\* GET /report-status for that task_id is answered 200 with status in_progress
\* or completed.
C24_AcceptedWithTaskId ==
    \A i \in DOMAIN responses :
        /\ responses[i].kind = "post" =>
              /\ responses[i].code = 200
              /\ responses[i].status = "accepted"
              /\ responses[i].task_id # NoTask
              /\ generations[responses[i].asked] \in {NoTask, responses[i].task_id}
        /\ (responses[i].kind = "get" /\ responses[i].asked \in ReturnedTaskIds) =>
              /\ responses[i].code = 200
              /\ responses[i].status \in {"in_progress", "completed"}

----------------------------------------------------------------------------
(* C25: the report of a batch of images *)

\* the pairs whose generate_image call returned a path
Succeeded == {i \in DOMAIN batch_results : batch_results[i] \notin {NoImage, Pending}}

\* C25: the batch reports total = the number of pairs requested, successful = the
\* number of calls that returned a path, failed = total - successful, image_paths
\* = those paths in the order of the requests, and success = true exactly when at
\* least one call returned a path.
C25_BatchReport ==
    batch_pc = "returned" =>
        /\ batch_out.total = Len(batch_descriptions)
        /\ batch_out.successful = Cardinality(Succeeded)
        /\ batch_out.failed = batch_out.total - batch_out.successful
        /\ Len(batch_out.image_paths) = Cardinality(Succeeded)
        /\ \A k \in DOMAIN batch_out.image_paths :
              \E i \in Succeeded :
                 /\ Cardinality({j \in Succeeded : j <= i}) = k
                 /\ batch_out.image_paths[k] = ImagePath(batch_descriptions[i].caption)
        /\ batch_out.success = (Succeeded # {})

\* three pairs were requested, the call of the first ended last, two calls
\* returned different paths and one returned None
C25_Witness ==
    /\ batch_pc = "returned"
    /\ batch_out.total = 3
    /\ batch_out.successful = 2
    /\ batch_out.failed = 1
    /\ batch_finished[3] = 1
    /\ batch_results[1] # NoImage
    /\ batch_out.image_paths[1] # batch_out.image_paths[2]

----------------------------------------------------------------------------
(* C33 *)

\* C33: when images are disabled, no image-generation call is made at any point
\* of the run and no task is ever suspended in one, whatever the content holds.
C33_NoImageCallWhenDisabled ==
    ~include_images =>
        \A s \in Nodes : img_calls[s] = 0 /\ pc[s] # "img"

\* images are disabled and a section whose content holds an image reference was
\* rendered and saved
C33_Witness ==
    /\ ~include_images
    /\ \E s \in Nodes : HasImageRef(content[s]) /\ Saved(s) /\ OwnBlocks(s) # {}


----------------------------------------------------------------------------
(* C34 *)

\* the image-generation calls in flight
ImageCallsInFlight == {s \in Nodes : pc[s] = "img"}

\* while the image call of s stays in flight, or is answered, the only blocks
\* added are those of s, and the file is written only by the save that ends the
\* critical section of s
NoAppendOrSaveByOthers ==
    \A s \in ImageCallsInFlight :
        /\ \A i \in (Len(doc) + 1)..Len(doc') : doc'[i].sec = s
        /\ SubSeq(doc', 1, Len(doc)) = doc
        /\ pc'[s] = "img" => file' = file
        /\ \A t \in Nodes \ {s} :
              pc[t] \in {"queued", "wantlock"} => pc'[t] \in {"queued", "wantlock", "gen1"}

\* C34: at most one image-generation call is in flight at any instant, it is made
\* by the holder of the document lock, and while it is in flight no other section
\* appends or saves.
C34_ImageCallInsideLock ==
    /\ [](Cardinality(ImageCallsInFlight) <= 1
           /\ \A s \in ImageCallsInFlight : doc_lock = s)
    /\ [][NoAppendOrSaveByOthers]_vars

\* an image call is in flight, another section is generating content and a third
\* one, whose content is ready, waits for the lock
C34_Witness ==
    \E s, t, u \in Nodes :
        /\ pc[s] = "img" /\ Generating(t) /\ pc[u] = "wantlock"
        /\ img_calls[s] = 1


----------------------------------------------------------------------------
(* C35 *)

\* the positions in the document of the heading and the content blocks of s
BlocksOf(s) == {i \in DOMAIN doc : doc[i].sec = s}

\* C35: the heading and the content blocks of a section occupy a contiguous
\* range of the document, heading first: no block of another section lies
\* between two blocks of the section.
C35_SectionContiguous ==
    \A s \in Nodes : \A i, j \in BlocksOf(s) :
        /\ \A m \in i..j : doc[m].sec = s
        /\ doc[i].kind = "heading" => i <= j

\* a section with three blocks of its own (heading, paragraph, image) was
\* appended while other sections were appended before and after it
C35_Witness ==
    \E s \in Nodes :
        /\ Cardinality(BlocksOf(s)) >= 3
        /\ \E i \in DOMAIN doc : doc[i].kind = "image" /\ doc[i].sec = s
        /\ \E i, j \in DOMAIN doc :
              /\ doc[i].sec \notin {0, s} /\ doc[j].sec \notin {0, s}
              /\ \A m \in BlocksOf(s) : i < m /\ m < j


----------------------------------------------------------------------------
(* C36 *)

\* the depth of s in the outline: 1 for a top-level section
Depth(s) == 1 + Cardinality({a \in Nodes : IsAncestor(a, s)})

\* the positions of the section headings of s in the sequence d
HeadingsOf(d, s) == {i \in DOMAIN d : d[i].kind = "heading" /\ d[i].sec = s}

\* C36: after a run in which no call failed, the document is the title followed
\* by the sections, each with exactly one heading, at the level of its depth, and
\* the file written by the final save is that document.
C36_EverySectionOnce ==
    (Completed /\ faults = 0) =>
        /\ doc[1] = TitleBlock
        /\ \A i \in 2..Len(doc) : doc[i].sec \in Nodes
        /\ \A s \in Nodes :
              /\ Cardinality(HeadingsOf(doc, s)) = 1
              /\ \A i \in HeadingsOf(doc, s) : doc[i].level = Depth(s)
        /\ Cardinality({i \in DOMAIN doc : doc[i].kind = "heading"}) = Len(parent)
        /\ file = doc

\* a run without failure on an outline three levels deep has returned
C36_Witness ==
    /\ Completed /\ faults = 0
    /\ \E s \in Nodes : Depth(s) = 3 /\ Cardinality(HeadingsOf(file, s)) = 1
    /\ \E s \in Nodes : doc[Len(doc)].sec = s /\ file[Len(file)].sec = s


----------------------------------------------------------------------------
(* C37 *)

\* execute has returned or raised to its caller
ExecuteOver == exec_pc \in {"returned", "raised"}

\* a section task of the run is still running or still to be started
TaskAlive(s) == pc[s] \in {"queued", "gen1", "gen2", "wantlock", "img", "children"}

\* C37: once execute has returned or raised, no section task of the run is alive
\* and neither the document nor the output file changes any more.
C37_NothingAfterExecute ==
    /\ [](ExecuteOver => \A s \in Nodes : ~TaskAlive(s))
    /\ [][ExecuteOver => (doc' = doc /\ file' = file)]_vars

----------------------------------------------------------------------------
(* C38 *)

RECURSIVE NumberReplacedFrom(_, _)
\* t from index i on, the number of every line that begins with digits, a dot
\* and a whitespace character replaced by 1 and every other character kept
NumberReplacedFrom(t, i) ==
    IF i > Len(t) THEN <<>>
    ELSE IF (i = 1 \/ t[i - 1] = "\n") /\ NumberMarker(t, i) > 0
         THEN LET n == NumberMarker(t, i)
              IN  <<"1", ".", t[i + n - 1]>> \o NumberReplacedFrom(t, i + n)
    ELSE <<t[i]>> \o NumberReplacedFrom(t, i + 1)

\* C38: the chunks the loop works on are those of the whole text in which the
\* number of every line beginning with digits, a dot and whitespace is replaced
\* by 1, whatever kind of chunk the line is in, and nothing else is changed.
C38_OnlyNumbersReplaced ==
    [][(cv_pc = "start" /\ cv_pc' = "loop") =>
          paragraphs' = Split(Strip(NumberReplacedFrom(markdown_text, 1)), <<"\n", "\n">>)]_vars


----------------------------------------------------------------------------
(* C31 *)

\* the status of call i matches its position: in_progress while a stage is
\* awaited, completed once the four stages have returned, in order, and the
\* result was returned, failed with the text of the exception once a stage has
\* raised, the caller having got that exception
StatusMatchesPosition(i) ==
    LET t == orch_tasks[i]
    IN  /\ t.id = i
        /\ t.status \in {"in_progress", "completed", "failed"}
        /\ t.status = "in_progress" <=> InStage(i)
        /\ t.status = "in_progress" => (t.error = NoError /\ orch_out[i] = "none")
        /\ t.status = "completed" <=> orch_pc[i] = "returned"
        /\ t.status = "completed" =>
              /\ orch_returned[i] = OrchStages
              /\ t.error = NoError
              /\ orch_out[i] = "completed"
        /\ t.status = "failed" <=> orch_pc[i] = "raised"
        /\ t.status = "failed" =>
              /\ Len(orch_returned[i]) < Len(OrchStages)
              /\ t.error = ErrorText(OrchStages[Len(orch_returned[i]) + 1])
              /\ orch_out[i] = t.error

\* a completed or failed entry is never written again
TerminalStatusKept ==
    \A i \in DOMAIN orch_tasks :
        orch_tasks[i].status \in {"completed", "failed"} => orch_tasks'[i] = orch_tasks[i]

\* C31: a report task is in_progress from its registration, completed only after
\* the plan, research, structure and content stages have all returned, failed
\* with the error text stored when a stage raises, the exception being raised to
\* the caller; a completed or failed status never changes afterwards.
C31_StatusLifecycle ==
    /\ [](\A i \in DOMAIN orch_tasks : StatusMatchesPosition(i))
    /\ [][TerminalStatusKept]_vars

\* of three calls one has completed, one has failed in the structure stage and
\* one is still in its research stage
C31_Witness ==
    \E i, j, k \in DOMAIN orch_tasks :
        /\ orch_tasks[i].status = "completed"
        /\ orch_tasks[j].status = "failed" /\ orch_tasks[j].error = ErrorText("structure")
        /\ orch_tasks[k].status = "in_progress" /\ orch_pc[k] = "research"


----------------------------------------------------------------------------
(* C32 *)

\* the questions whose research returned an answer that can be processed
Answered == {q \in DOMAIN rs_tasks : rs_tasks[q].kind = "answer"}

\* C32: every question has its task from the start of gather on; execute returns
\* one result per question whose research succeeded and could be processed, each
\* with the answer to its own question, in the order of the questions, whatever
\* the other questions came to and in whatever order the tasks ended.
C32_SuccessfulInQuestionOrder ==
    /\ rs_pc \in {"gather", "returned"} => DOMAIN rs_tasks = DOMAIN rs_questions
    /\ rs_pc = "returned" =>
          /\ Len(rs_out) = Cardinality(Answered)
          /\ \A k \in DOMAIN rs_out :
                /\ rs_out[k].question \in Answered
                /\ rs_out[k].content = rs_out[k].question
          /\ \A k, m \in DOMAIN rs_out : k < m => rs_out[k].question < rs_out[m].question

\* the first question failed for good after its retries, the result of the
\* second could not be processed, the third was answered while the other two
\* were still being researched, and execute returned the third alone
C32_Witness ==
    /\ rs_pc = "returned"
    /\ Len(rs_questions) >= 3
    /\ rs_tasks[1].kind = "exception" /\ rs_retries[1] = ResearchMaxRetries
    /\ rs_tasks[2].kind = "malformed"
    /\ rs_tasks[3].kind = "answer"
    /\ rs_finished[1] = 3
    /\ rs_out = <<ResearchResult(3, 3)>>

----------------------------------------------------------------------------
(* C39 *)

\* generate_report has sent the chain of report r to the workers
ChainStarted(r) == chain_pc[r] \in {"research", "structure", "content", "image", "over"}

\* the report has a terminal status
Terminal(r) == report_status[r] \in {"completed", "failed"}

\* C39: every report whose chain was started eventually reaches the status
\* COMPLETED or FAILED; it does not stay IN_PROGRESS when the research, the
\* structure or the content task fails.
C39_ReportReachesTerminal ==
    \A r \in 1..MaxReports : ChainStarted(r) ~> Terminal(r)


----------------------------------------------------------------------------
(* C40 *)

\* no call of send_update or broadcast is under way
ManagerAtRest == su_pc = "idle" /\ bc_pc # "iterating"

\* the websockets the manager keeps
Kept == UNION {Range(active_connections[i].sockets) : i \in DOMAIN active_connections}

\* C40: the connection manager maps no task_id to an empty list; once its calls
\* are over it keeps no websocket whose send failed; send_update and broadcast
\* end without raising, also when a send fails or a client disconnects while
\* they iterate.
C40_ManagerConsistent ==
    /\ \A i \in DOMAIN active_connections :
          active_connections[i].key # 0 => active_connections[i].sockets # <<>>
    /\ ManagerAtRest => Kept \cap ws_failed = {}
    /\ bc_pc # "raised"


============================================================================
